---- MODULE Spec2Model ----
(***************************************************************************)
(* Churn-prediction service: the serving feature pipeline                  *)
(* (backend/app/ml_service.py), the prediction result, and the model       *)
(* lifecycle (training subprocess, artifact files, load_models, upload     *)
(* and reload handlers, concurrent prediction requests).                   *)
(*                                                                         *)
(* Three specifications share the module:                                  *)
(*   SpecFeat  the feature pipeline applied to bounded bundles and rows    *)
(*   SpecRisk  predict applied to every classifier output of the grid      *)
(*   Spec      the lifecycle state machine                                 *)
(***************************************************************************)
EXTENDS Integers, Sequences, FiniteSets, TLC

VARIABLES
    svc,          \* SpecFeat/SpecRisk: the ChurnPredictor fields, by content
    input_data,   \* the request's row: a dict, as an ordered sequence of items
    step,         \* position of the pipeline run
    features,     \* what prepare_features returned
    X_array,      \* what batch_prepare_features returned on the one-row table
    pfeatures,    \* what predict's own call of prepare_features returned
    result,       \* what predict returned
    status_code,  \* the HTTP status of the /predictions answer
    explanation,  \* what predict_with_explanation returned
    explain_code, \* the HTTP status of the /predictions/explain answer
    artifacts,    \* SpecLoad: the files of ml/models, by content
    files,        \* Spec: content of each artifact file of ml/models
    pred,         \* the global ChurnPredictor: per field, the run it was loaded from
    trainer,      \* the train_model.py process
    nruns,        \* training runs started so far
    pc,           \* position of each server thread
    kind,         \* the endpoint of the prediction request in progress
    seen,         \* training runs whose objects the request has used
    entry,        \* what the predictor held when the request was accepted
    touched,      \* the upload handler's load_models changed a predictor field
    history,      \* SpecUpload: the file ml/data/upload_history.json
    attempt,      \* the upload handler's position and locals
    log,          \* content hash of every upload attempt so far, in order
    data_file,    \* SpecTrain: the file train_model.py is started on
    main,         \* position and locals of train_model.py's main
    batch,        \* SpecBatch: position and locals of the batch_predict endpoint
    factors,      \* SpecFactors: a call of _get_top_factors
    eventloop     \* SpecLoop: the upload requests the event loop is serving

pipeVars ==
    <<svc, input_data, step, features, X_array, pfeatures, result, status_code,
      explanation, explain_code, artifacts>>

lifeVars == <<files, pred, trainer, nruns, pc, kind, seen, entry, touched>>

ledgerVars == <<history, attempt, log>>

trainVars == <<data_file, main>>

reqVars == <<batch, factors, eventloop>>

vars == <<pipeVars, lifeVars, ledgerVars, trainVars, reqVars>>

(***************************************************************************)
(* Bounds                                                                  *)
(***************************************************************************)
\* Largest number of keys of an input row.
MaxCols == 3
\* Decimal digits the classifier output carries beyond the 4 that round(., 4) keeps.
ExtraDigits == 1
\* Largest number of training runs started.
MaxRuns == 2
\* Largest number of upload attempts on top of the ledger found at start.
MaxUploads == 3

(***************************************************************************)
(* Values                                                                  *)
(***************************************************************************)
\* A cell of a row: a Python str, int, None, or a float NaN.
StrCell(s) == [t |-> "str", s |-> s, n |-> 0]
IntCell(n) == [t |-> "int", s |-> "", n |-> n]
NoneCell == [t |-> "none", s |-> "", n |-> 0]
NaNCell == [t |-> "nan", s |-> "", n |-> 0]

\* A float of a feature array.
F(v) == [nan |-> FALSE, v |-> v]
NaN == [nan |-> TRUE, v |-> 0]

\* A call's outcome: the array returned (a sequence of rows) or the exception raised.
Ok(rows) == [ok |-> TRUE, err |-> "", rows |-> rows]
Raise(e) == [ok |-> FALSE, err |-> e, rows |-> <<>>]
NotRun == [ok |-> FALSE, err |-> "not run", rows |-> <<>>]

SeqToSet(s) == {s[i] : i \in DOMAIN s}
IndexOf(s, x) == CHOOSE i \in DOMAIN s : s[i] = x

\* str(value), as pandas' astype(str) applies it to each cell.
PyStr(cell) ==
    CASE cell.t = "str" -> cell.s
      [] cell.t = "int" -> ToString(cell.n)
      [] cell.t = "none" -> "None"
      [] OTHER -> "nan"

IsNumericStr(s) == \E k \in 0..9 : ToString(k) = s
StrToNum(s) == CHOOSE k \in 0..9 : ToString(k) = s

\* float(value), as astype(float) applies it to each cell; a str that is no
\* number raises ValueError.
FloatRaises(cell) == cell.t = "str" /\ ~IsNumericStr(cell.s)
ToFloat(cell) ==
    CASE cell.t = "str" -> F(StrToNum(cell.s))
      [] cell.t = "int" -> F(cell.n)
      [] OTHER -> NaN

(***************************************************************************)
(* DataFrames: ordered column names and rows of cells aligned with them.   *)
(***************************************************************************)
\* pd.DataFrame([input_data]): one row, the columns in the dict's key order.
DataFrame1(d) ==
    [cols |-> [i \in DOMAIN d |-> d[i].k], rows |-> << [i \in DOMAIN d |-> d[i].v] >>]

HasCol(df, c) == c \in SeqToSet(df.cols)
ColOf(df, c) == IndexOf(df.cols, c)

(***************************************************************************)
(* Fitted transformers                                                     *)
(***************************************************************************)
\* value in encoder.classes_: an elementwise == against the fitted strings, so
\* only a str equal to a fitted class is a member.
InClasses(classes, cell) == cell.t = "str" /\ cell.s \in SeqToSet(classes)

\* LabelEncoder.transform on one fitted value: its 0-based position in classes_.
Transform(classes, s) == IndexOf(classes, s) - 1

\* StandardScaler.transform on an ndarray: positional, column j with the j-th
\* fitted mean and scale; ValueError on an unfitted scaler, on no rows, or on a
\* column count other than the fitted one.
ScalerRaises(scaler, rows, ncols) ==
    \/ ~scaler.fitted
    \/ Len(rows) = 0
    \/ ncols # Len(scaler.names)

ScaleValue(scaler, j, x) ==
    IF x.nan THEN NaN ELSE F((x.v - scaler.mean[j]) \div scaler.scale[j])

(***************************************************************************)
(* ChurnPredictor.prepare_features                                         *)
(***************************************************************************)
\* Mutant of EncodeValue: the unknown-value branch is lost, the value stays as
\* it came.
EncodeValueKeepsUnknown(classes, value) ==
    IF InClasses(classes, value) THEN IntCell(Transform(classes, value.s)) ELSE value

\* Lines 148-154: the encoding of one categorical value, 0 for an unknown one.
EncodeValue(classes, value) ==
    IF InClasses(classes, value) THEN IntCell(Transform(classes, value.s)) ELSE IntCell(0)

\* Lines 142-154: every categorical column that is in the row and has an encoder.
EncodeRow(p, df) ==
    IF DOMAIN p.label_encoders = {} THEN df
    ELSE [df EXCEPT !.rows = [r \in DOMAIN df.rows |->
            [i \in DOMAIN df.cols |->
                IF /\ df.cols[i] \in SeqToSet(p.categorical_cols)
                   /\ df.cols[i] \in DOMAIN p.label_encoders
                THEN EncodeValue(p.label_encoders[df.cols[i]], df.rows[r][i])
                ELSE df.rows[r][i]]]]

\* Mutant of SelectFeatures: the i-th feature is read from the row's i-th
\* column instead of the column of its name.
SelectFeaturesByPosition(p, df) ==
    IF Len(df.cols) = 0 THEN <<>>
    ELSE << [i \in DOMAIN p.feature_cols |->
                IF i \in DOMAIN df.cols THEN df.rows[1][i] ELSE IntCell(0)] >>

\* Lines 157-164: feature_df, one column per feature in feature_cols order,
\* looked up by name.  feature_df starts with no index: a scalar 0 assigned
\* before any column of the row gives an empty column, which becomes NaN when
\* the first column of the row sets the index, and the frame keeps no row at
\* all when no feature is in the row.
SelectFeatures(p, df) ==
    LET fc == p.feature_cols
        present(i) == HasCol(df, fc[i])
        indexed(i) == \E j \in 1..(i - 1) : present(j)
    IN  IF \A i \in DOMAIN fc : ~present(i) THEN <<>>
        ELSE << [i \in DOMAIN fc |->
                    IF present(i) THEN df.rows[1][ColOf(df, fc[i])]
                    ELSE IF indexed(i) THEN IntCell(0) ELSE NaNCell] >>

\* Line 167: feature_df.values.astype(float).
AsFloat(rows) ==
    IF \E r \in DOMAIN rows : \E i \in DOMAIN rows[r] : FloatRaises(rows[r][i])
    THEN Raise("ValueError")
    ELSE Ok([r \in DOMAIN rows |-> [i \in DOMAIN rows[r] |-> ToFloat(rows[r][i])]])

\* Line 172: the positions, in feature order, of the numerical features.
NumIndices(p) ==
    SelectSeq([i \in DOMAIN p.feature_cols |-> i],
              LAMBDA i : p.feature_cols[i] \in SeqToSet(p.numerical_cols))

\* Lines 170-174: the scaler applied to the numerical positions.
ScaleArray(p, rows) ==
    LET idx == NumIndices(p)
    IN  IF ~p.scaler.present \/ Len(p.numerical_cols) = 0 \/ Len(idx) = 0
        THEN Ok(rows)
        ELSE IF ScalerRaises(p.scaler, rows, Len(idx)) THEN Raise("ValueError")
        ELSE Ok([r \in DOMAIN rows |-> [i \in DOMAIN rows[r] |->
                    IF i \in SeqToSet(idx)
                    THEN ScaleValue(p.scaler, IndexOf(idx, i), rows[r][i])
                    ELSE rows[r][i]]])

prepare_features(p, d) ==
    IF ~p.model_loaded THEN Raise("ModelNotLoadedError")
    ELSE LET arr == AsFloat(SelectFeatures(p, EncodeRow(p, DataFrame1(d))))
         IN  IF ~arr.ok THEN arr ELSE ScaleArray(p, arr.rows)

(***************************************************************************)
(* ChurnPredictor.batch_prepare_features                                   *)
(***************************************************************************)
\* Lines 189-194: X on the table's own index, one column per feature in
\* feature_cols order, looked up by name; 0 for a feature the table lacks.
BatchSelect(p, df) ==
    [r \in DOMAIN df.rows |-> [i \in DOMAIN p.feature_cols |->
        IF HasCol(df, p.feature_cols[i])
        THEN df.rows[r][ColOf(df, p.feature_cols[i])]
        ELSE IntCell(0)]]

\* Lines 206-209: astype(str), the class -> position mapping, 0 where it misses.
BatchEncodeValue(classes, value) ==
    IF PyStr(value) \in SeqToSet(classes)
    THEN IntCell(Transform(classes, PyStr(value)))
    ELSE IntCell(0)

\* Lines 197-209: every categorical column of X that has an encoder.
BatchEncode(p, rows) ==
    IF DOMAIN p.label_encoders = {} THEN rows
    ELSE [r \in DOMAIN rows |-> [i \in DOMAIN rows[r] |->
            IF /\ p.feature_cols[i] \in SeqToSet(p.categorical_cols)
               /\ p.feature_cols[i] \in DOMAIN p.label_encoders
            THEN BatchEncodeValue(p.label_encoders[p.feature_cols[i]], rows[r][i])
            ELSE rows[r][i]]]

\* Line 227: the numerical columns, in numerical_cols order, that X holds.
ValidNumCols(p) ==
    SelectSeq(p.numerical_cols, LAMBDA c : c \in SeqToSet(p.feature_cols))

\* Lines 225-229: the scaler applied to X[valid_num_cols], a DataFrame: its
\* column names must be the fitted ones in the fitted order.
BatchScale(p, rows) ==
    LET valid == ValidNumCols(p)
    IN  IF ~p.scaler.present \/ Len(p.numerical_cols) = 0 \/ Len(valid) = 0
        THEN Ok(rows)
        ELSE IF ScalerRaises(p.scaler, rows, Len(valid)) \/ valid # p.scaler.names
        THEN Raise("ValueError")
        ELSE Ok([r \in DOMAIN rows |-> [i \in DOMAIN rows[r] |->
                    IF p.feature_cols[i] \in SeqToSet(valid)
                    THEN ScaleValue(p.scaler, IndexOf(valid, p.feature_cols[i]), rows[r][i])
                    ELSE rows[r][i]]])

batch_prepare_features(p, df) ==
    IF ~p.model_loaded THEN Raise("ModelNotLoadedError")
    ELSE LET arr == AsFloat(BatchEncode(p, BatchSelect(p, df)))
         IN  IF ~arr.ok THEN arr ELSE BatchScale(p, arr.rows)

(***************************************************************************)
(* ChurnPredictor.predict and the /predictions endpoint                    *)
(***************************************************************************)
\* Probabilities are fixed-point: the classifier output in units of
\* 10^-(4+ExtraDigits), the returned (rounded) values in units of 10^-4.
RECURSIVE Pow10(_)
Pow10(k) == IF k = 0 THEN 1 ELSE 10 * Pow10(k - 1)
ProbUnit == Pow10(ExtraDigits)
ProbOne == 10000 * ProbUnit

\* config.py: high 0.7, medium 0.3, low 0.0.
RISK_THRESHOLDS ==
    [high |-> 7 * (ProbOne \div 10), medium |-> 3 * (ProbOne \div 10), low |-> 0]

_get_risk_level(probability) ==
    IF probability >= RISK_THRESHOLDS.high THEN "high"
    ELSE IF probability >= RISK_THRESHOLDS.medium THEN "medium"
    ELSE "low"

\* round(x, 4): to the nearest 10^-4.  A grid value exactly halfway is no
\* exact binary float, so the side it falls to is the float's (tie_up).
Round4(x, tie_up) ==
    LET q == x \div ProbUnit
        r == x % ProbUnit
    IN  IF 2 * r > ProbUnit \/ (2 * r = ProbUnit /\ tie_up) THEN q + 1 ELSE q

\* x * y as <<high, low>> in base 10^6, for x, y below 10^6 * 10^3: the
\* products of the source are doubles, which hold them exactly; here they
\* are kept within 32 bits.
Mul2(x, y) ==
    LET xh == x \div 1000
        xl == x % 1000
        yh == y \div 1000
        yl == y % 1000
        mid == xh * yl + xl * yh
        low == (mid % 1000) * 1000 + xl * yl
    IN  << xh * yh + mid \div 1000 + low \div 1000000, low % 1000000 >>

\* a <= b for two such products.
Le2(a, b) == a[1] < b[1] \/ (a[1] = b[1] /\ a[2] <= b[2])

\* np.sqrt(probability * (1 - probability) / 100) on the grid: the largest
\* grid value s in lo..hi with 100 * s^2 <= probability * (ProbOne - probability).
RECURSIVE SqrtSearch(_, _, _)
SqrtSearch(lo, hi, target) ==
    IF lo >= hi THEN lo
    ELSE LET mid == (lo + hi + 1) \div 2
         IN  IF Le2(Mul2(10 * mid, 10 * mid), target)
             THEN SqrtSearch(mid, hi, target)
             ELSE SqrtSearch(lo, mid - 1, target)

std_error(probability) ==
    SqrtSearch(0, ProbOne \div 20, Mul2(probability, ProbOne - probability))

\* z_score = 1.96, in hundredths.
z_score == 196

Max(a, b) == IF a >= b THEN a ELSE b
Min(a, b) == IF a <= b THEN a ELSE b

\* The interval without the clamping of lines 327-328.
CIBoundsUnclamped(probability, se) ==
    LET margin == (z_score * se) \div 100
    IN  [ lower |-> probability - margin, upper |-> probability + margin ]

\* Lines 326-328: lower and upper before rounding, on the grid, for the
\* standard error se of line 324.
CIBounds(probability, se) ==
    LET margin == (z_score * se) \div 100
    IN  [ lower |-> Max(0, probability - margin),
          upper |-> Min(ProbOne, probability + margin) ]

\* _calculate_confidence_interval, given its std_error; tie says, for each
\* value rounded, to which side a halfway value falls.
_calculate_confidence_interval(probability, se, tie) ==
    LET b == CIBounds(probability, se)
    IN  [ lower |-> Round4(b.lower, tie[b.lower]),
          upper |-> Round4(b.upper, tie[b.upper]) ]

PredOk(prob, risk, ci) ==
    [ok |-> TRUE, err |-> "", churn_probability |-> prob, risk_level |-> risk,
     confidence_interval |-> ci]
PredRaise(e) ==
    [ok |-> FALSE, err |-> e, churn_probability |-> 0, risk_level |-> "",
     confidence_interval |-> [lower |-> 0, upper |-> 0]]
NoResult == PredRaise("not run")

\* Lines 242-254, given what prepare_features (line 241) returned.  proba is
\* the classifier's positive-class output on those features;
\* predict_proba(features)[0] has no row 0 when the array has no row.
\* tie_up maps each value that round(., 4) is applied to to the side a
\* halfway value falls to.
PredictOn(feats, proba, se, tie_up) ==
    IF ~feats.ok THEN PredRaise(feats.err)
    ELSE IF Len(feats.rows) = 0 THEN PredRaise("IndexError")
    ELSE PredOk(Round4(proba, tie_up[proba]), _get_risk_level(proba),
                _calculate_confidence_interval(proba, se, tie_up))

predict(p, d, proba, tie_up) ==
    PredictOn(IF ~p.model_loaded THEN Raise("ModelNotLoadedError")
              ELSE prepare_features(p, d), proba, std_error(proba), tie_up)

\* The values predict rounds for classifier output proba, and the ways their
\* halfway cases can fall: one side per value, the same value always the same.
Rounded(proba, se) ==
    LET b == CIBounds(proba, se) IN {proba, b.lower, b.upper}
IsTie(x) == 2 * (x % ProbUnit) = ProbUnit
Ties(proba, se) ==
    LET vals == Rounded(proba, se)
    IN  { [v \in vals |-> v \in up] : up \in SUBSET {v \in vals : IsTie(v)} }

\* predict_with_explanation on the outcome prediction of its call of predict
\* (line 262); shap is the state of the explainer: not ready (line 264),
\* raising in shap_values (line 304) or returning values.
ShapStates == {"not ready", "raises", "values"}
ExplOk(prediction, shap_values) ==
    [ok |-> TRUE, err |-> "", prediction |-> prediction, shap_values |-> shap_values]
ExplRaise(e) ==
    [ok |-> FALSE, err |-> e, prediction |-> NoResult, shap_values |-> "none"]
NoExplanation == ExplRaise("not run")
predict_with_explanation(p, d, prediction, shap) ==
    IF ~prediction.ok THEN ExplRaise(prediction.err)
    ELSE IF shap = "not ready" THEN ExplOk(prediction, "empty")
    ELSE LET feats == prepare_features(p, d)
         IN  IF ~feats.ok THEN ExplRaise(feats.err)
             ELSE IF shap = "raises" THEN ExplOk(prediction, "empty")
             ELSE ExplOk(prediction, "values")

\* An endpoint that reports every exception as the generic failure.
predict_churn_generic(p, res) == IF res.ok THEN 200 ELSE 500

\* The HTTP status predict_churn answers res, the outcome of predictor.predict,
\* with; check_model_loaded answers first.
predict_churn(p, res) ==
    IF ~p.model_loaded THEN 503
    ELSE IF res.ok THEN 200
    ELSE IF res.err = "ModelNotLoadedError" THEN 503
    ELSE 500

\* The same for the endpoint /predictions/explain, lines 70-82.
explain_endpoint(p, res) ==
    IF ~p.model_loaded THEN 503
    ELSE IF res.ok THEN 200
    ELSE IF res.err = "ModelNotLoadedError" THEN 503
    ELSE 500

(***************************************************************************)
(* Bundles and rows the pipeline is applied to                             *)
(***************************************************************************)
\* classes_ of the encoder fitted on a column: its distinct values as strings,
\* sorted.
Classes(col) == IF col = "c" THEN <<"1", "2", "B">> ELSE <<"A", "B">>

\* The scaler fitted on X[numerical_cols]: one mean and scale per column, in
\* that order; not fitted when there is no numerical column.
FittedScaler(num) ==
    [present |-> TRUE, fitted |-> Len(num) > 0, names |-> num,
     mean |-> [j \in DOMAIN num |-> j], scale |-> [j \in DOMAIN num |-> 1]]
NoScaler ==
    [present |-> FALSE, fitted |-> FALSE, names |-> <<>>, mean |-> <<>>, scale |-> <<>>]
NoEncoders == [c \in {} |-> <<>>]

\* The predictor after load_models on the artifact set one training run wrote
\* for categorical columns cat and numerical columns num; the scaler file and
\* the encoders file are optional.
LoadedBundle(cat, num, has_encoders, has_scaler) ==
    [model_loaded |-> TRUE,
     feature_cols |-> cat \o num,
     categorical_cols |-> cat,
     numerical_cols |-> num,
     label_encoders |-> IF has_encoders THEN [c \in SeqToSet(cat) |-> Classes(c)]
                        ELSE NoEncoders,
     scaler |-> IF has_scaler THEN FittedScaler(num) ELSE NoScaler]

\* ChurnPredictor.__init__.
Unloaded ==
    [model_loaded |-> FALSE, feature_cols |-> <<>>, categorical_cols |-> <<>>,
     numerical_cols |-> <<>>, label_encoders |-> NoEncoders, scaler |-> NoScaler]

\* The files of ml/models written for a bundle with the given columns, with
\* or without encoders.pkl and scaler.pkl; model and metadata.json are
\* there.
NoArtifacts == [model |-> FALSE]
ArtifactSet(cat, num, encoders_file, scaler_file) ==
    [model |-> TRUE,
     metadata |-> [feature_cols |-> cat \o num, categorical_cols |-> cat,
                   numerical_cols |-> num],
     encoders |-> [exists |-> encoders_file,
                   content |-> [c \in SeqToSet(cat) |-> Classes(c)]],
     scaler |-> [exists |-> scaler_file, content |-> FittedScaler(num)]]

\* load_models on predictor p and files a that hold model and metadata: the
\* predictor when it returns True.
load_models_from(p, a) ==
    [model_loaded |-> TRUE,
     scaler |-> IF a.scaler.exists THEN a.scaler.content ELSE p.scaler,
     label_encoders |-> IF a.encoders.exists THEN a.encoders.content
                        ELSE p.label_encoders,
     feature_cols |-> a.metadata.feature_cols,
     categorical_cols |-> a.metadata.categorical_cols,
     numerical_cols |-> a.metadata.numerical_cols]

CatChoices == {<<>>, <<"c">>}
NumChoices == {<<>>, <<"n">>, <<"n", "m">>}
LoadedBundles ==
    {LoadedBundle(cat, num, e, s) :
        cat \in CatChoices, num \in NumChoices, e \in BOOLEAN, s \in BOOLEAN}
    \ {LoadedBundle(<<>>, <<>>, e, s) : e \in BOOLEAN, s \in BOOLEAN}
\* The predictor after a load_models that raised: fields of the bundle are
\* assigned and model_loaded is False (lines 97-102).
FailedLoads ==
    {[LoadedBundle(<<"c">>, <<"n">>, e, s) EXCEPT !.model_loaded = FALSE] :
        e \in BOOLEAN, s \in BOOLEAN}
Predictors == LoadedBundles \cup {Unloaded} \cup FailedLoads

Keys == {"c", "n", "m", "x"}
Cells == {StrCell("2"), StrCell("zz"), IntCell(2), NoneCell}
Items == [k : Keys, v : Cells]
Rows ==
    UNION {{d \in [1..n -> Items] : \A i, j \in 1..n : d[i].k = d[j].k => i = j} :
            n \in 0..MaxCols}

\* Classifier outputs the pipeline runs are answered with.
ProbaSamples == {0, RISK_THRESHOLDS.medium, RISK_THRESHOLDS.high, ProbOne}
ProbaGrid == 0..ProbOne

(***************************************************************************)
(* Model lifecycle: artifact files, the trainer process, load_models,      *)
(* initialize_shap, the upload and reload handlers, prediction requests    *)
(***************************************************************************)
\* The artifact files of ml/models, in the order save_and_zip writes them.
SaveOrder == <<"model", "scaler", "encoders", "shap", "metadata">>
Artifacts == SeqToSet(SaveOrder)

\* Content of an artifact file: none, a truncated write, or the complete
\* output of training run k.
Absent == [st |-> "absent", run |-> 0]
Partial == [st |-> "partial", run |-> 0]
Whole(k) == [st |-> "whole", run |-> k]

\* The predictor after __init__: every object field None (run 0), flags False.
\* A field holds the number of the training run whose output it was loaded from.
NewPredictor ==
    [ model |-> 0, scaler |-> 0, label_encoders |-> 0, metadata |-> 0,
      shap_explainer |-> 0, model_loaded |-> FALSE, shap_ready |-> FALSE,
      feature_cols |-> 0, categorical_cols |-> 0, numerical_cols |-> 0,
      feature_importance |-> 0 ]

\* No training process.
NoTrainer ==
    [ pc |-> "idle", run |-> 0, by |-> "none", explainer |-> FALSE,
      healthy |-> FALSE, returncode |-> 0 ]

\* The threads of the server process: the event loop, which runs the upload
\* handler, and two threadpool threads, one running /model/reload and one
\* running a prediction endpoint.
Threads == {"upload", "reload", "request"}

\* The lifecycle part of the state when nothing has happened yet: no
\* artifact file, the predictor as constructed, every thread idle.
LifeStart ==
    /\ files = [f \in Artifacts |-> Absent]
    /\ pred = NewPredictor
    /\ trainer = NoTrainer
    /\ nruns = 0
    /\ pc = [t \in Threads |-> "idle"]
    /\ kind = "none"
    /\ seen = {}
    /\ entry = "none"
    /\ touched = FALSE

\* The trainer script's part of the state while it is not followed.
NoDataFile == [excel |-> FALSE, sheets |-> <<>>]
NoFrame == [columns |-> <<>>, rows |-> 0]
NoMetadata ==
    [feature_cols |-> <<>>, categorical_cols |-> <<>>, numerical_cols |-> <<>>,
     customer_id_col |-> "", target_col |-> ""]
MainAt(at) ==
    [step |-> at, df |-> NoFrame, target_col |-> "", customer_id_col |-> "",
     y |-> <<>>, X |-> <<>>, num_cols |-> <<>>, cat_cols |-> <<>>,
     scaler |-> [names |-> <<>>], metadata |-> NoMetadata,
     raised |-> "", written |-> FALSE]
TrainOff ==
    /\ data_file = NoDataFile
    /\ main = MainAt("off")

\* The request handlers that are followed by content, while they are not.
NoBatch ==
    [pc |-> "off", customers |-> <<>>, i |-> 0, predictions |-> <<>>,
     high_risk |-> 0, medium_risk |-> 0, low_risk |-> 0,
     summary |-> [total_processed |-> 0, high_risk_count |-> 0,
                  medium_risk_count |-> 0, low_risk_count |-> 0]]
NoFactors ==
    [pc |-> "off", shap_dict |-> <<>>, input_data |-> <<>>, top_n |-> 0,
     out |-> <<>>]
NoHandler ==
    [pc |-> "idle", n |-> 0, file_hash |-> "", is_duplicate |-> FALSE,
     history |-> [exists |-> FALSE, json |-> FALSE, uploads |-> <<>>]]
NoUploads ==
    [pc |-> "off", running |-> 0, started |-> 0, overlapped |-> FALSE,
     handlers |-> [h \in {1, 2} |-> NoHandler],
     earlier |-> <<>>, completed |-> <<>>]
ReqOff ==
    /\ batch = NoBatch
    /\ factors = NoFactors
    /\ eventloop = NoUploads

\* The ledger part of the state while the ledger is not looked at.
NoFile == [exists |-> FALSE, json |-> FALSE, uploads |-> <<>>]
NoAttempt ==
    [pc |-> "idle", n |-> 0, file_hash |-> "", is_duplicate |-> FALSE,
     returncode |-> -1, healthy |-> FALSE, status_code |-> 0]
LedgerOff ==
    /\ history = NoFile
    /\ attempt = NoAttempt
    /\ log = <<>>

\* The pipeline part of the state while the lifecycle runs.
PipeOff ==
    /\ svc = Unloaded
    /\ input_data = <<>>
    /\ step = "off"
    /\ features = NotRun
    /\ X_array = NotRun
    /\ pfeatures = NotRun
    /\ result = NoResult
    /\ status_code = 0
    /\ explanation = NoExplanation
    /\ explain_code = 0
    /\ artifacts = NoArtifacts

Init == LifeStart /\ PipeOff /\ LedgerOff /\ TrainOff /\ ReqOff

(* ------------------------- the trainer process ------------------------- *)
\* python ml/train_model.py <file>: started by the upload handler's
\* subprocess.run or from a shell. One training process at a time.
Launch(by) ==
    /\ nruns < MaxRuns
    /\ trainer.pc = "idle"
    /\ nruns' = nruns + 1
    /\ trainer' = [NoTrainer EXCEPT !.pc = "fit", !.run = nruns + 1, !.by = by]

\* The process ends with exit status rc. subprocess.run keeps the status for
\* the handler; a shell run leaves nothing behind.
Exited(rc) ==
    IF trainer.by = "upload"
    THEN [trainer EXCEPT !.pc = "exited", !.returncode = rc]
    ELSE NoTrainer

\* python ml/train_model.py <file> from a shell.
TrainFromShell ==
    /\ Launch("cli")
    /\ UNCHANGED <<files, pred, pc, kind, seen, entry, touched, pipeVars, ledgerVars, trainVars, reqVars>>

\* main up to save_and_zip: load_data, detect_schema, prepare_features and
\* train_model raise on a bad dataset (exit status 1); generate_shap returns
\* an explainer or None; test_predictions returns healthy or not.
TrainFit ==
    /\ trainer.pc = "fit"
    /\ \/ trainer' = Exited(1)
       \/ \E e \in BOOLEAN, h \in BOOLEAN :
             trainer' = [trainer EXCEPT !.pc = "model", !.explainer = e, !.healthy = h]
    /\ UNCHANGED <<files, pred, nruns, pc, kind, seen, entry, touched, pipeVars, ledgerVars, trainVars, reqVars>>

\* The file after f in save_and_zip, "zip" after the last.
NextSave(f) ==
    IF IndexOf(SaveOrder, f) = Len(SaveOrder) THEN "zip"
    ELSE SaveOrder[IndexOf(SaveOrder, f) + 1]

\* save_and_zip writes file trainer.pc; shap_explainer.pkl only `if explainer`.
Writes(f) == f # "shap" \/ trainer.explainer

TrainSave ==
    /\ trainer.pc \in Artifacts
    /\ files' = IF Writes(trainer.pc)
                THEN [files EXCEPT ![trainer.pc] = Whole(trainer.run)]
                ELSE files
    /\ trainer' = [trainer EXCEPT !.pc = NextSave(trainer.pc)]
    /\ UNCHANGED <<pred, nruns, pc, kind, seen, entry, touched, pipeVars, ledgerVars, trainVars, reqVars>>

\* The zip archive and the end of main: exit status 0, healthy or not.
TrainZip ==
    /\ trainer.pc = "zip"
    /\ trainer' = Exited(0)
    /\ UNCHANGED <<files, pred, nruns, pc, kind, seen, entry, touched, pipeVars, ledgerVars, trainVars, reqVars>>

\* The process dies inside save_and_zip (a write raises, the process is
\* killed): the file being written is left truncated or untouched, the
\* files written before stay, the exit status is not 0.
TrainCrash ==
    /\ trainer.pc \in Artifacts \cup {"zip"}
    /\ \E torn \in BOOLEAN :
          files' = IF torn /\ trainer.pc \in Artifacts /\ Writes(trainer.pc)
                   THEN [files EXCEPT ![trainer.pc] = Partial]
                   ELSE files
    /\ trainer' = Exited(1)
    /\ UNCHANGED <<pred, nruns, pc, kind, seen, entry, touched, pipeVars, ledgerVars, trainVars, reqVars>>

(* ------------------- load_models and initialize_shap ------------------- *)
\* Thread t moves to position p.
Goto(t, p) == pc' = [pc EXCEPT ![t] = p]

\* What thread t does when load_models returned False: the upload handler
\* raises HTTPException(500), reload_model raises HTTPException(503).
LoadFalse(t) == IF t = "upload" THEN "failed" ELSE "idle"

\* What thread t does when initialize_shap returned.
ShapReturned(t) == IF t = "upload" THEN "swapped" ELSE "idle"

\* The predictor after an assignment by thread t; touched records that the
\* upload handler's own load_models changed a field.
Assign(t, p) ==
    /\ pred' = p
    /\ touched' = (touched \/ (t = "upload" /\ p # pred))

\* load_models' except branch: model_loaded = False, return False.
LoadRaised(t) ==
    /\ Assign(t, [pred EXCEPT !.model_loaded = FALSE])
    /\ Goto(t, LoadFalse(t))

\* Lines 56-62: no model file: return False; else self.model = joblib.load.
LoadModel(t) ==
    /\ pc[t] = "load_model"
    /\ CASE files["model"].st = "absent" ->
                Goto(t, LoadFalse(t)) /\ UNCHANGED <<pred, touched>>
         [] files["model"].st = "partial" -> LoadRaised(t)
         [] OTHER ->
                /\ Assign(t, [pred EXCEPT !.model = files["model"].run])
                /\ Goto(t, "load_scaler")
    /\ UNCHANGED <<files, trainer, nruns, kind, seen, entry, pipeVars, ledgerVars, trainVars, reqVars>>

\* Lines 64-71: scaler and label_encoders are loaded if their file exists;
\* without the file the field keeps what it had.
LoadOptional(t, at, file, field, next) ==
    /\ pc[t] = at
    /\ CASE files[file].st = "absent" ->
                Goto(t, next) /\ UNCHANGED <<pred, touched>>
         [] files[file].st = "partial" -> LoadRaised(t)
         [] OTHER ->
                /\ Assign(t, [pred EXCEPT ![field] = files[file].run])
                /\ Goto(t, next)
    /\ UNCHANGED <<files, trainer, nruns, kind, seen, entry, pipeVars, ledgerVars, trainVars, reqVars>>

LoadScaler(t) == LoadOptional(t, "load_scaler", "scaler", "scaler", "load_encoders")
LoadEncoders(t) ==
    LoadOptional(t, "load_encoders", "encoders", "label_encoders", "load_metadata")

\* Lines 74-79: no metadata file: return False; else self.metadata = json.load.
LoadMetadata(t) ==
    /\ pc[t] = "load_metadata"
    /\ CASE files["metadata"].st = "absent" ->
                Goto(t, LoadFalse(t)) /\ UNCHANGED <<pred, touched>>
         [] files["metadata"].st = "partial" -> LoadRaised(t)
         [] OTHER ->
                /\ Assign(t, [pred EXCEPT !.metadata = files["metadata"].run])
                /\ Goto(t, "load_feature_cols")
    /\ UNCHANGED <<files, trainer, nruns, kind, seen, entry, pipeVars, ledgerVars, trainVars, reqVars>>

\* Lines 82-85: one field copied out of self.metadata.
LoadField(t, at, field, next) ==
    /\ pc[t] = at
    /\ Assign(t, [pred EXCEPT ![field] = pred.metadata])
    /\ Goto(t, next)
    /\ UNCHANGED <<files, trainer, nruns, kind, seen, entry, pipeVars, ledgerVars, trainVars, reqVars>>

LoadFeatureCols(t) ==
    LoadField(t, "load_feature_cols", "feature_cols", "load_categorical_cols")
LoadCategoricalCols(t) ==
    LoadField(t, "load_categorical_cols", "categorical_cols", "load_numerical_cols")
LoadNumericalCols(t) ==
    LoadField(t, "load_numerical_cols", "numerical_cols", "load_feature_importance")
LoadFeatureImportance(t) ==
    LoadField(t, "load_feature_importance", "feature_importance", "load_done")

\* Line 94: model_loaded = True; return True. Both callers go on to
\* initialize_shap.
LoadDone(t) ==
    /\ pc[t] = "load_done"
    /\ Assign(t, [pred EXCEPT !.model_loaded = TRUE])
    /\ Goto(t, "shap_init")
    /\ UNCHANGED <<files, trainer, nruns, kind, seen, entry, pipeVars, ledgerVars, trainVars, reqVars>>

\* initialize_shap: False if no model is loaded; the explainer of
\* shap_explainer.pkl if the file exists, else TreeExplainer(self.model),
\* which is an explainer of the loaded model or raises; any raise sets
\* shap_ready = False.
initialize_shap(t) ==
    /\ pc[t] = "shap_init"
    /\ IF ~pred.model_loaded THEN UNCHANGED pred
       ELSE CASE files["shap"].st = "whole" ->
                     pred' = [pred EXCEPT !.shap_explainer = files["shap"].run,
                                          !.shap_ready = TRUE]
              [] files["shap"].st = "partial" ->
                     pred' = [pred EXCEPT !.shap_ready = FALSE]
              [] OTHER ->
                     \/ pred' = [pred EXCEPT !.shap_explainer = pred.model,
                                             !.shap_ready = TRUE]
                     \/ pred' = [pred EXCEPT !.shap_ready = FALSE]
    /\ Goto(t, ShapReturned(t))
    /\ UNCHANGED <<files, trainer, nruns, kind, seen, entry, touched, pipeVars, ledgerVars, trainVars, reqVars>>

load_models(t) ==
    \/ LoadModel(t)
    \/ LoadScaler(t)
    \/ LoadEncoders(t)
    \/ LoadMetadata(t)
    \/ LoadFeatureCols(t)
    \/ LoadCategoricalCols(t)
    \/ LoadNumericalCols(t)
    \/ LoadFeatureImportance(t)
    \/ LoadDone(t)

(* --------------------------- the handlers ------------------------------ *)
\* The event loop runs upload_csv_for_predictions from the end of
\* `await file.read()` to its return without yielding: nothing else is
\* accepted or dispatched meanwhile.
LoopFree == pc["upload"] = "idle"

\* upload_csv_for_predictions, lines 275-326: hash, ledger lookup, file
\* saved, subprocess.run starts the trainer and waits for it.
UploadStart ==
    /\ pc["upload"] = "idle"
    /\ Launch("upload")
    /\ Goto("upload", "training")
    /\ touched' = FALSE
    /\ UNCHANGED <<files, pred, kind, seen, entry, pipeVars, ledgerVars, trainVars, reqVars>>

\* subprocess.run returns: check=True raises CalledProcessError on a non-zero
\* exit status (HTTPException 500), else the handler calls load_models.
UploadTrained ==
    /\ pc["upload"] = "training"
    /\ trainer.pc = "exited"
    /\ Goto("upload", IF trainer.returncode # 0 THEN "failed" ELSE "load_model")
    /\ trainer' = NoTrainer
    /\ UNCHANGED <<files, pred, nruns, kind, seen, entry, touched, pipeVars, ledgerVars, trainVars, reqVars>>

\* The HTTPException leaves the handler: status 500.
UploadFailed ==
    /\ pc["upload"] = "failed"
    /\ Goto("upload", "idle")
    /\ UNCHANGED <<files, pred, trainer, nruns, kind, seen, entry, touched, pipeVars, ledgerVars, trainVars, reqVars>>

\* Lines 345-610: the batch predictions with the loaded model, the ledger
\* entry and the response.
UploadFinish ==
    /\ pc["upload"] = "swapped"
    /\ Goto("upload", "idle")
    /\ UNCHANGED <<files, pred, trainer, nruns, kind, seen, entry, touched, pipeVars, ledgerVars, trainVars, reqVars>>

\* POST /model/reload is dispatched to a threadpool thread.
ReloadAccept ==
    /\ pc["reload"] = "idle"
    /\ LoopFree
    /\ Goto("reload", "load_model")
    /\ UNCHANGED <<files, pred, trainer, nruns, kind, seen, entry, touched, pipeVars, ledgerVars, trainVars, reqVars>>

(* ----------------------- a prediction request -------------------------- *)
\* A POST /predictions ("predict") or /predictions/explain ("explain")
\* reaches the server's socket.
RequestArrive ==
    /\ pc["request"] = "idle"
    /\ \E k \in {"predict", "explain"} : kind' = k
    /\ Goto("request", "arrived")
    /\ UNCHANGED <<files, pred, trainer, nruns, seen, entry, touched, pipeVars, ledgerVars, trainVars, reqVars>>

\* The fields the request has read, by the training run they came from.
Read(fields) == seen' = seen \cup ({pred[f] : f \in fields} \ {0})

\* The answer is sent and the thread is free again.
Answer ==
    /\ Goto("request", "idle")
    /\ kind' = "none"
    /\ seen' = {}
    /\ entry' = "none"

\* The fields load_models fills from the files of one training run.
BundleFields ==
    {"model", "scaler", "label_encoders", "metadata", "feature_cols",
     "categorical_cols", "numerical_cols"}

\* What the predictor holds right now: "explained" is the complete bundle of
\* one training run, no load_models in progress, and no explainer or that
\* run's explainer; "bundle" is the same with another run's explainer;
\* "partial" is anything else.
Held ==
    IF pc["upload"] = "idle" /\ pc["reload"] = "idle"
       /\ \A f \in BundleFields : pred[f] = pred.model
    THEN IF pred.shap_explainer \in {0, pred.model} THEN "explained" ELSE "bundle"
    ELSE "partial"

\* The event loop accepts the request and a threadpool thread runs
\* check_model_loaded: 503 without a loaded model.
RequestAccept ==
    /\ pc["request"] = "arrived"
    /\ LoopFree
    /\ IF pred.model_loaded
       THEN Goto("request", "p_encode") /\ entry' = Held /\ UNCHANGED <<kind, seen>>
       ELSE Answer
    /\ UNCHANGED <<files, pred, trainer, nruns, touched, pipeVars, ledgerVars, trainVars, reqVars>>

\* prepare_features lines 135-154: ModelNotLoadedError (503) without a loaded
\* model, else the categorical columns are encoded with label_encoders.
PrepareEncode(at, next) ==
    /\ pc["request"] = at
    /\ IF pred.model_loaded
       THEN /\ Read({"label_encoders", "categorical_cols"})
            /\ Goto("request", next)
            /\ UNCHANGED <<kind, entry>>
       ELSE Answer
    /\ UNCHANGED <<files, pred, trainer, nruns, touched, pipeVars, ledgerVars, trainVars, reqVars>>

\* prepare_features lines 157-167: the columns are selected by feature_cols.
PrepareSelect(at, next) ==
    /\ pc["request"] = at
    /\ Read({"feature_cols"})
    /\ Goto("request", next)
    /\ UNCHANGED <<files, pred, trainer, nruns, kind, entry, touched, pipeVars, ledgerVars, trainVars, reqVars>>

\* prepare_features lines 170-174: the numerical columns are scaled.
PrepareScale(at, next) ==
    /\ pc["request"] = at
    /\ Read({"scaler", "numerical_cols", "feature_cols"})
    /\ Goto("request", next)
    /\ UNCHANGED <<files, pred, trainer, nruns, kind, entry, touched, pipeVars, ledgerVars, trainVars, reqVars>>

\* predict line 242: self.model.predict_proba; predict returns, and
\* predict_with_explanation goes on.
PredictProba ==
    /\ pc["request"] = "p_classify"
    /\ Read({"model"})
    /\ Goto("request", IF kind = "explain" THEN "e_ready" ELSE "respond")
    /\ UNCHANGED <<files, pred, trainer, nruns, kind, entry, touched, pipeVars, ledgerVars, trainVars, reqVars>>

\* predict_with_explanation line 264: without a ready explainer the
\* prediction is returned with no attribution.
ExplainReady ==
    /\ pc["request"] = "e_ready"
    /\ Goto("request", IF pred.shap_ready /\ pred.shap_explainer # 0
                       THEN "e_encode" ELSE "respond")
    /\ UNCHANGED <<files, pred, trainer, nruns, kind, seen, entry, touched, pipeVars, ledgerVars, trainVars, reqVars>>

\* Line 275: self.shap_explainer.shap_values(features).
ExplainShap ==
    /\ pc["request"] = "e_shap"
    /\ Read({"shap_explainer"})
    /\ Goto("request", "e_zip")
    /\ UNCHANGED <<files, pred, trainer, nruns, kind, entry, touched, pipeVars, ledgerVars, trainVars, reqVars>>

\* Line 285: the attribution is labelled with zip(self.feature_cols, ...).
ExplainZip ==
    /\ pc["request"] = "e_zip"
    /\ Read({"feature_cols"})
    /\ Goto("request", "respond")
    /\ UNCHANGED <<files, pred, trainer, nruns, kind, entry, touched, pipeVars, ledgerVars, trainVars, reqVars>>

Respond ==
    /\ pc["request"] = "respond"
    /\ Answer
    /\ UNCHANGED <<files, pred, trainer, nruns, touched, pipeVars, ledgerVars, trainVars, reqVars>>

Request ==
    \/ RequestArrive
    \/ RequestAccept
    \/ PrepareEncode("p_encode", "p_select")
    \/ PrepareSelect("p_select", "p_scale")
    \/ PrepareScale("p_scale", "p_classify")
    \/ PredictProba
    \/ ExplainReady
    \/ PrepareEncode("e_encode", "e_select")
    \/ PrepareSelect("e_select", "e_scale")
    \/ PrepareScale("e_scale", "e_shap")
    \/ ExplainShap
    \/ ExplainZip
    \/ Respond

Trainer == TrainFromShell \/ TrainFit \/ TrainSave \/ TrainZip \/ TrainCrash

Upload ==
    \/ UploadStart
    \/ UploadTrained
    \/ load_models("upload")
    \/ initialize_shap("upload")
    \/ UploadFailed
    \/ UploadFinish

Reload == ReloadAccept \/ load_models("reload") \/ initialize_shap("reload")

Next == Trainer \/ Upload \/ Reload \/ Request

Spec == Init /\ [][Next]_vars

(***************************************************************************)
(* The pipeline runs                                                       *)
(***************************************************************************)
PipeInit(P, R) ==
    /\ svc \in P
    /\ input_data \in R
    /\ step = "start"
    /\ features = NotRun
    /\ X_array = NotRun
    /\ pfeatures = NotRun
    /\ result = NoResult
    /\ status_code = 0
    /\ explanation = NoExplanation
    /\ explain_code = 0
    /\ artifacts = NoArtifacts
    /\ LifeStart
    /\ LedgerOff
    /\ TrainOff /\ ReqOff

RunPrepare ==
    /\ step = "start"
    /\ features' = prepare_features(svc, input_data)
    /\ step' = "prepared"
    /\ UNCHANGED <<svc, input_data, X_array, pfeatures, result, status_code,
                   explanation, explain_code, artifacts, lifeVars, ledgerVars, trainVars, reqVars>>

RunBatch ==
    /\ step = "prepared"
    /\ X_array' = batch_prepare_features(svc, DataFrame1(input_data))
    /\ step' = "batched"
    /\ UNCHANGED <<svc, input_data, features, pfeatures, result, status_code,
                   explanation, explain_code, artifacts, lifeVars, ledgerVars, trainVars, reqVars>>

\* predict up to line 241: the model_loaded check and its own call of
\* prepare_features.
PredictPrepare ==
    /\ step = "batched"
    /\ pfeatures' = IF ~svc.model_loaded THEN Raise("ModelNotLoadedError")
                    ELSE prepare_features(svc, input_data)
    /\ step' = "classify"
    /\ UNCHANGED <<svc, input_data, features, X_array, result, status_code,
                   explanation, explain_code, artifacts, lifeVars, ledgerVars, trainVars, reqVars>>

\* predict from line 242 and the endpoint's answer, for a classifier output
\* of P.
PredictClassify(P) ==
    /\ step = "classify"
    /\ \E proba \in P : \E se \in {std_error(proba)} :
       \E tie_up \in Ties(proba, se) :
       \E res \in {PredictOn(pfeatures, proba, se, tie_up)} :
              /\ result' = res
              /\ status_code' = predict_churn(svc, res)
    /\ step' = "done"
    /\ UNCHANGED <<svc, input_data, features, X_array, pfeatures,
                   explanation, explain_code, artifacts, lifeVars, ledgerVars, trainVars, reqVars>>

\* POST /predictions/explain with the same row: predict_with_explanation and
\* the endpoint's answer, for every state of the explainer.
ExplainCall ==
    /\ step = "done"
    /\ \E shap \in ShapStates :
       \E res \in {predict_with_explanation(svc, input_data, result, shap)} :
              /\ explanation' = res
              /\ explain_code' = explain_endpoint(svc, res)
    /\ step' = "explained"
    /\ UNCHANGED <<svc, input_data, features, X_array, pfeatures, result,
                   status_code, artifacts, lifeVars, ledgerVars, trainVars, reqVars>>

PipeNext(P) ==
    RunPrepare \/ RunBatch \/ PredictPrepare \/ PredictClassify(P) \/ ExplainCall

\* load_models, called by lifespan, reload_model or the upload handler.
ReloadBundle ==
    /\ step = "load"
    /\ svc' = load_models_from(svc, artifacts)
    /\ step' = "start"
    /\ UNCHANGED <<input_data, features, X_array, pfeatures, result, status_code,
                   explanation, explain_code, artifacts, lifeVars, ledgerVars, trainVars, reqVars>>

\* The predictor as an earlier load left it, the files a later load finds,
\* and a row prepared after that load.
EarlierPredictors ==
    {Unloaded, LoadedBundle(<<"c">>, <<"n">>, TRUE, TRUE),
     LoadedBundle(<<"c">>, <<"n", "m">>, TRUE, TRUE)}
ArtifactSets ==
    {ArtifactSet(<<"c">>, num, e, s) :
        num \in {<<"n">>, <<"n", "m">>}, e \in BOOLEAN, s \in BOOLEAN}
LoadInit ==
    /\ svc \in EarlierPredictors
    /\ artifacts \in ArtifactSets
    /\ input_data \in Rows
    /\ step = "load"
    /\ features = NotRun
    /\ X_array = NotRun
    /\ pfeatures = NotRun
    /\ result = NoResult
    /\ status_code = 0
    /\ explanation = NoExplanation
    /\ explain_code = 0
    /\ LifeStart
    /\ LedgerOff
    /\ TrainOff /\ ReqOff
LoadNext == ReloadBundle \/ RunPrepare \/ RunBatch
SpecLoad == LoadInit /\ [][LoadNext]_vars

\* The feature pipeline on every bundle and row of the bounds.
FeatNext == PipeNext(ProbaSamples)
SpecFeat == PipeInit(Predictors, Rows) /\ [][FeatNext]_vars

\* predict on one loaded bundle and row, for every classifier output of the grid.
RiskRow == << [k |-> "c", v |-> StrCell("B")], [k |-> "n", v |-> IntCell(2)] >>
RiskNext == PipeNext(ProbaGrid)
SpecRisk ==
    /\ PipeInit({LoadedBundle(<<"c">>, <<"n">>, TRUE, TRUE)}, {RiskRow})
    /\ [][RiskNext]_vars

(***************************************************************************)
(* The upload handler and its ledger (specification SpecUpload)            *)
(*                                                                         *)
(* upload_csv_for_predictions is a coroutine with no await after line 275, *)
(* so from the hash on one attempt runs at a time.                         *)
(***************************************************************************)
\* history["uploads"][-50:], line 599.
KeepLast == 50
Last(seq, n) ==
    IF Len(seq) <= n THEN seq ELSE SubSeq(seq, Len(seq) - n + 1, Len(seq))

\* upload_history.json holding {"uploads": uploads}, and the file after a
\* write that was cut short: open(history_file, 'w') has emptied it and
\* json.dump has not finished.
JsonFile(uploads) == [exists |-> TRUE, json |-> TRUE, uploads |-> uploads]
TornFile == [exists |-> TRUE, json |-> FALSE, uploads |-> <<>>]

\* upload_record, lines 568-584: n stands for timestamp and filename of the
\* attempt.
UploadRecord(n, file_hash, is_duplicate) ==
    [n |-> n, file_hash |-> file_hash, is_duplicate |-> is_duplicate]

\* Lines 283-296: is_duplicate. A file that is missing or cannot be parsed
\* leaves it False.
CheckHistory(file, file_hash) ==
    /\ file.exists
    /\ file.json
    /\ \E i \in DOMAIN file.uploads : file.uploads[i].file_hash = file_hash

\* Lines 586-602: the file after the record is appended.
AppendToHistory(file, record) ==
    LET uploads == IF file.exists /\ file.json THEN file.uploads ELSE <<>>
    IN  JsonFile(Last(Append(uploads, record), KeepLast))

\* Content hashes of the uploaded files.
Hashes == {"a", "b"}

\* The ledger the handler has written after k <= KeepLast uploads that all
\* succeeded, the first of content "a" and the others of content "b": upload
\* i was appended with the is_duplicate that the entries before it gave.
EarlierHash(i) == IF i = 1 THEN "a" ELSE "b"
Recorded(k) ==
    IF k = 0 THEN NoFile
    ELSE JsonFile([i \in 1..k |->
             UploadRecord(i, EarlierHash(i),
                          \E j \in 1..(i - 1) : EarlierHash(j) = EarlierHash(i))])
EarlierUploads == {0, 1, KeepLast - 1, KeepLast}

LedgerInit ==
    /\ \E k \in EarlierUploads :
          /\ history = Recorded(k)
          /\ log = [i \in 1..k |-> [file_hash |-> EarlierHash(i), earlier |-> TRUE]]
    /\ attempt = NoAttempt

Started == Cardinality({i \in DOMAIN log : ~log[i].earlier})
Ended == {"idle", "done", "failed", "killed"}

\* Lines 275-296: the content is read and hashed and the ledger looked up.
UploadHash ==
    /\ attempt.pc \in Ended
    /\ Started < MaxUploads
    /\ \E file_hash \in Hashes :
          /\ attempt' = [pc |-> "hashed", n |-> Len(log) + 1,
                         file_hash |-> file_hash,
                         is_duplicate |-> CheckHistory(history, file_hash),
                         returncode |-> -1, healthy |-> FALSE, status_code |-> 0]
          /\ log' = Append(log, [file_hash |-> file_hash, earlier |-> FALSE])
    /\ UNCHANGED <<history, pipeVars, lifeVars, trainVars, reqVars>>

\* A handler that answers a duplicate from the model it has.
UploadTrainUnlessDuplicate ==
    /\ attempt.pc = "hashed"
    /\ attempt' = [attempt EXCEPT
                     !.pc = IF attempt.is_duplicate THEN "predict" ELSE "training"]
    /\ UNCHANGED <<history, log, pipeVars, lifeVars, trainVars, reqVars>>

\* Lines 299-326: the file is saved and train_model.py started, whatever
\* is_duplicate says.
UploadTrain ==
    /\ attempt.pc = "hashed"
    /\ attempt' = [attempt EXCEPT !.pc = "training"]
    /\ UNCHANGED <<history, log, pipeVars, lifeVars, trainVars, reqVars>>

\* The HTTPException of lines 334 and 339 and every other exception end in
\* the handler's except Exception, lines 612-617: status 500.
UploadRaise == attempt' = [attempt EXCEPT !.pc = "failed", !.status_code = 500]

\* A subprocess.run without check=True: the handler goes on to load_models
\* whatever the exit status.
UploadTrainingExitsUnchecked ==
    /\ attempt.pc = "training"
    /\ \E returncode \in {0, 1}, healthy \in BOOLEAN :
          attempt' = [attempt EXCEPT !.pc = "load", !.returncode = returncode,
                                     !.healthy = healthy /\ returncode = 0]
    /\ UNCHANGED <<history, log, pipeVars, lifeVars, trainVars, reqVars>>

\* subprocess.run(..., check=True) returns or raises CalledProcessError,
\* when the subprocess exits: the call states no timeout.  train_model.py's
\* main ends with status 0 after save_and_zip, whether test_predictions
\* returned healthy or not (train_model.py, lines 333 and 352-361).
UploadTrainingExits ==
    /\ attempt.pc = "training"
    /\ \E returncode \in {0, 1}, healthy \in BOOLEAN :
          IF returncode = 0
          THEN attempt' = [attempt EXCEPT !.pc = "load", !.returncode = 0,
                                          !.healthy = healthy]
          ELSE attempt' = [attempt EXCEPT !.pc = "failed", !.status_code = 500,
                                          !.returncode = returncode]
    /\ UNCHANGED <<history, log, pipeVars, lifeVars, trainVars, reqVars>>

\* Lines 338-343: load_models returns True or False.
UploadLoad ==
    /\ attempt.pc = "load"
    /\ \E loaded \in BOOLEAN :
          IF loaded THEN attempt' = [attempt EXCEPT !.pc = "predict"]
          ELSE UploadRaise
    /\ UNCHANGED <<history, log, pipeVars, lifeVars, trainVars, reqVars>>

\* Lines 345-584: the batch predictions, which return or raise (the
\* ValueError of batch_prepare_features, for one).
UploadPredict ==
    /\ attempt.pc = "predict"
    /\ \E raised \in BOOLEAN :
          IF raised THEN UploadRaise
          ELSE attempt' = [attempt EXCEPT !.pc = "record"]
    /\ UNCHANGED <<history, log, pipeVars, lifeVars, trainVars, reqVars>>

\* Lines 586-610: the record is appended and the response returned.
UploadRecorded ==
    /\ attempt.pc = "record"
    /\ history' = AppendToHistory(history,
                      UploadRecord(attempt.n, attempt.file_hash, attempt.is_duplicate))
    /\ attempt' = [attempt EXCEPT !.pc = "done", !.status_code = 200]
    /\ UNCHANGED <<log, pipeVars, lifeVars, trainVars, reqVars>>

\* The server process is killed inside lines 601-602, after open(..., 'w')
\* and before json.dump has finished; it is started again afterwards.
UploadKilled ==
    /\ attempt.pc = "record"
    /\ history' = TornFile
    /\ attempt' = [attempt EXCEPT !.pc = "killed"]
    /\ UNCHANGED <<log, pipeVars, lifeVars, trainVars, reqVars>>

UploadNext ==
    \/ UploadHash
    \/ UploadTrain
    \/ UploadTrainingExits
    \/ UploadLoad
    \/ UploadPredict
    \/ UploadRecorded
    \/ UploadKilled

UploadInit == LifeStart /\ PipeOff /\ LedgerInit /\ TrainOff /\ ReqOff
SpecUpload == UploadInit /\ [][UploadNext]_vars

\* The handler's own statements run on once started; requests keep coming
\* up to the bound.  Nothing makes the training subprocess exit, and nothing
\* makes the server be killed.
UploadHandlerSteps ==
    UploadHash \/ UploadTrain \/ UploadLoad \/ UploadPredict \/ UploadRecorded
SpecUploadFair == SpecUpload /\ WF_vars(UploadHandlerSteps)

(***************************************************************************)
(* train_model.py, by content (specification SpecTrain)                    *)
(***************************************************************************)
\* A sheet (for a CSV file: the file) has column names, stripped, and a
\* number of rows; the cell of a column in a row is fixed by the column's
\* name, so that columns differ in type, labels and number of distinct values.
Sheet(columns, rows) == [columns |-> columns, rows |-> rows]
CsvFile(sheet) == [excel |-> FALSE, sheets |-> <<sheet>>]
ExcelFile(sheets) == [excel |-> TRUE, sheets |-> sheets]

ColumnValue(name, i) ==
    CASE name = "Churn" -> StrCell(IF i % 2 = 1 THEN "Yes" ELSE "No")
      [] name = "Exited" -> IntCell(i % 2)
      [] name = "Status" -> StrCell(IF i % 2 = 1 THEN "Stayed" ELSE "Left")
      [] name = "Target" -> IntCell(IF i = 1 THEN 1 ELSE 0)
      [] name = "tenure" -> IntCell(i)
      [] name = "id" -> IntCell(i)
      [] name = "ROW_ID" -> StrCell(ToString(i - 1))
      [] name = "score" -> IF i % 5 = 0 THEN StrCell("n/a") ELSE IntCell(i)
      [] name = "plan" -> StrCell(<<"p0", "p1", "p2">>[(i % 3) + 1])
      [] name = "Variable" ->
            StrCell(<<"v1", "v2", "v3", "v4", "v5", "v6">>[(i % 6) + 1])
      [] OTHER -> StrCell(IF i % 2 = 1 THEN "text" ELSE "more text")

\* str.lower() on the labels above.
Lower(str) ==
    CASE str = "Yes" -> "yes"
      [] str = "No" -> "no"
      [] str = "Stayed" -> "stayed"
      [] str = "Left" -> "left"
      [] OTHER -> str

\* df[col].nunique()
nunique(df, col) == Cardinality({ColumnValue(col, i) : i \in 1..df.rows})

\* Lines 41-42 and 51 of load_data.
metadata_keywords ==
    {"Data", "Variable", "Description", "Discerption", "Column_name",
     "Column_type", "Data_type", "Type", "Format"}
SmallSheet == 10

\* load_data: of an Excel file the first sheet with no metadata keyword among
\* its columns and at least 10 rows, else the first sheet; a CSV file as it is.
load_data(file) ==
    IF file.excel
    THEN LET data == {k \in DOMAIN file.sheets :
                        /\ SeqToSet(file.sheets[k].columns) \cap metadata_keywords = {}
                        /\ ~(file.sheets[k].rows < SmallSheet)}
         IN  IF data # {}
             THEN file.sheets[CHOOSE k \in data : \A other \in data : k <= other]
             ELSE file.sheets[1]
    ELSE file.sheets[1]

\* Lines 91 and 97 of detect_schema.
target_candidates == <<"Churn", "Exited", "churn", "Target", "Status", "churned">>
MaxTargetValues == 5

SchemaOk(target_col) == [ok |-> TRUE, err |-> "", target_col |-> target_col]
SchemaRaise(e) == [ok |-> FALSE, err |-> e, target_col |-> ""]

\* A detect_schema that takes the first column of the data that is a
\* candidate.
detect_schema_by_column(df) ==
    LET found == {k \in DOMAIN df.columns : df.columns[k] \in SeqToSet(target_candidates)}
        last_col == df.columns[Len(df.columns)]
    IN  IF found # {}
        THEN SchemaOk(df.columns[CHOOSE k \in found : \A other \in found : k <= other])
        ELSE IF nunique(df, last_col) <= MaxTargetValues THEN SchemaOk(last_col)
        ELSE SchemaRaise("ValueError")

\* detect_schema, the target column (lines 91-101), on a frame with at least
\* one column.
detect_schema(df) ==
    LET found == {k \in DOMAIN target_candidates :
                     target_candidates[k] \in SeqToSet(df.columns)}
        last_col == df.columns[Len(df.columns)]
    IN  IF found # {}
        THEN SchemaOk(target_candidates[CHOOSE k \in found : \A other \in found : k <= other])
        ELSE IF nunique(df, last_col) <= MaxTargetValues THEN SchemaOk(last_col)
        ELSE SchemaRaise("ValueError")

\* Lines 166-170 of prepare_features: the label vector y.
ChurnWords == {"yes", "1", "true", "churned", "exited"}
TargetVector(df, target_col) ==
    LET y_raw == [i \in 1..df.rows |-> ColumnValue(target_col, i)]
    IN  IF \A i \in DOMAIN y_raw : y_raw[i].t = "int" /\ y_raw[i].n \in {0, 1}
        THEN [i \in DOMAIN y_raw |-> y_raw[i].n]
        ELSE [i \in DOMAIN y_raw |->
                 IF Lower(PyStr(y_raw[i])) \in ChurnWords THEN 1 ELSE 0]

\* Lines 101-109 of detect_schema: the id column is the first candidate among
\* the columns, else a column ROW_ID that is added to the frame.
id_candidates == <<"customerID", "CustomerId", "customer_id", "id", "RowNumber">>
customer_id_col(df) ==
    LET found == SelectSeq(id_candidates, LAMBDA c : c \in SeqToSet(df.columns))
    IN  IF Len(found) > 0 THEN found[1] ELSE "ROW_ID"
ColumnsAfterDetect(df) ==
    IF customer_id_col(df) = "ROW_ID" /\ "ROW_ID" \notin SeqToSet(df.columns)
    THEN Append(df.columns, "ROW_ID")
    ELSE df.columns

\* Lines 128-131 of prepare_features: more than 0.8 of the column's cells
\* are numbers to pd.to_numeric(errors='coerce').
IsNumber(cell) == cell.t = "int" \/ (cell.t = "str" /\ IsNumericStr(cell.s))
IsNumericalColumn(df, col) ==
    10 * Cardinality({i \in 1..df.rows : IsNumber(ColumnValue(col, i))}) > 8 * df.rows

\* X[col] = ... on each column of a list in turn: a new name is added at the
\* end, a name X holds already keeps its place.
AssignColumns(cols) ==
    LET first == SelectSeq([i \in DOMAIN cols |-> i],
                           LAMBDA i : \A j \in 1..(i - 1) : cols[j] # cols[i])
    IN  [k \in DOMAIN first |-> cols[first[k]]]

PrepareOk(X, numerical_cols, categorical_cols) ==
    [ok |-> TRUE, err |-> "", X |-> X, numerical_cols |-> numerical_cols,
     categorical_cols |-> categorical_cols, scaler |-> [names |-> numerical_cols]]
PrepareRaise(e) ==
    [ok |-> FALSE, err |-> e, X |-> <<>>, numerical_cols |-> <<>>,
     categorical_cols |-> <<>>, scaler |-> [names |-> <<>>]]

\* The column lists of lines 124-144, in the order of the loop over df.columns.
FeatureColumns(df, target_col, id_col) ==
    SelectSeq(ColumnsAfterDetect(df), LAMBDA c : c \notin {target_col, id_col})
NumericalCols(df, target_col, id_col) ==
    SelectSeq(FeatureColumns(df, target_col, id_col),
              LAMBDA c : IsNumericalColumn(df, c))
CategoricalCols(df, target_col, id_col) ==
    SelectSeq(FeatureColumns(df, target_col, id_col),
              LAMBDA c : ~IsNumericalColumn(df, c))
\* df[col] of a name that two columns carry is a DataFrame, on which
\* pd.to_numeric raises TypeError.
DuplicatedFeature(df, target_col, id_col) ==
    LET columns == ColumnsAfterDetect(df)
    IN  \E i, j \in DOMAIN columns :
            i # j /\ columns[i] = columns[j] /\ columns[i] \notin {target_col, id_col}

\* A prepare_features that fills X in the order of the dataset's columns.
train_prepare_features_in_column_order(df, target_col, id_col) ==
    IF DuplicatedFeature(df, target_col, id_col) THEN PrepareRaise("TypeError")
    ELSE PrepareOk(AssignColumns(FeatureColumns(df, target_col, id_col)),
                   NumericalCols(df, target_col, id_col),
                   CategoricalCols(df, target_col, id_col))

\* prepare_features of train_model.py (lines 115-180): X holds the encoded
\* categorical columns first and the numerical ones after them (148-161);
\* the scaler is fitted on X[numerical_cols] (174-178).
train_prepare_features(df, target_col, id_col) ==
    IF DuplicatedFeature(df, target_col, id_col) THEN PrepareRaise("TypeError")
    ELSE PrepareOk(AssignColumns(CategoricalCols(df, target_col, id_col)
                                 \o NumericalCols(df, target_col, id_col)),
                   NumericalCols(df, target_col, id_col),
                   CategoricalCols(df, target_col, id_col))

\* train_model: train_test_split(test_size=0.2, stratify=y) raises ValueError
\* when a class has fewer than 2 members or the test part has fewer rows than
\* there are classes; what fit and roc_auc_score do with a single class or
\* with no feature column depends on the libraries installed.
TrainOutcomes(n_features, y) ==
    LET classes == SeqToSet(y)
        n_test == (Len(y) + 4) \div 5
    IN  IF \E c \in classes : Cardinality({i \in DOMAIN y : y[i] = c}) < 2
        THEN {"ValueError"}
        ELSE IF n_test < Cardinality(classes) THEN {"ValueError"}
        ELSE IF Cardinality(classes) < 2 \/ n_features = 0
        THEN {"ok", "ValueError"}
        ELSE {"ok"}

\* An exception leaves main: the process exits non-zero with nothing written.
MainRaise(e) == main' = [main EXCEPT !.step = "raised", !.raised = e]

MainLoad ==
    /\ main.step = "load_data"
    /\ main' = [main EXCEPT !.step = "detect_schema", !.df = load_data(data_file)]
    /\ UNCHANGED <<data_file, pipeVars, lifeVars, ledgerVars, reqVars>>

MainDetect ==
    /\ main.step = "detect_schema"
    /\ LET schema == detect_schema(main.df)
       IN  IF schema.ok
           THEN main' = [main EXCEPT !.step = "prepare_features",
                                     !.target_col = schema.target_col,
                                     !.customer_id_col = customer_id_col(main.df)]
           ELSE MainRaise(schema.err)
    /\ UNCHANGED <<data_file, pipeVars, lifeVars, ledgerVars, reqVars>>

MainPrepare ==
    /\ main.step = "prepare_features"
    /\ LET prepared == train_prepare_features(main.df, main.target_col,
                                              main.customer_id_col)
       IN  IF prepared.ok
           THEN main' = [main EXCEPT !.step = "train_model",
                                     !.y = TargetVector(main.df, main.target_col),
                                     !.X = prepared.X,
                                     !.num_cols = prepared.numerical_cols,
                                     !.cat_cols = prepared.categorical_cols,
                                     !.scaler = prepared.scaler]
           ELSE MainRaise(prepared.err)
    /\ UNCHANGED <<data_file, pipeVars, lifeVars, ledgerVars, reqVars>>

MainTrain ==
    /\ main.step = "train_model"
    /\ \E outcome \in TrainOutcomes(Len(main.X), main.y) :
          IF outcome = "ok" THEN main' = [main EXCEPT !.step = "save_and_zip"]
          ELSE MainRaise(outcome)
    /\ UNCHANGED <<data_file, pipeVars, lifeVars, ledgerVars, reqVars>>

\* generate_shap, test_predictions, the metadata of lines 337-353 and
\* save_and_zip: the bundle is written.
MainSave ==
    /\ main.step = "save_and_zip"
    /\ main' = [main EXCEPT
          !.step = "exit", !.written = TRUE,
          !.metadata = [feature_cols |-> main.X,
                        categorical_cols |-> main.cat_cols,
                        numerical_cols |-> main.num_cols,
                        customer_id_col |-> main.customer_id_col,
                        target_col |-> main.target_col]]
    /\ UNCHANGED <<data_file, pipeVars, lifeVars, ledgerVars, reqVars>>

\* The files train_model.py is started on.
ColumnNames ==
    {"Churn", "Exited", "Status", "Target", "tenure", "plan", "Variable",
     "Description"}
ColumnLists ==
    UNION {{c \in [1..n -> ColumnNames] : \A i, j \in 1..n : c[i] = c[j] => i = j} :
            n \in 1..MaxCols}
RowCounts == {5, 12, 20}
Sheets == {Sheet(c, r) : c \in ColumnLists, r \in RowCounts}
ExcelSheets ==
    {Sheet(<<"Variable", "Description">>, 12), Sheet(<<"Variable", "Status">>, 5),
     Sheet(<<"tenure", "Churn">>, 20), Sheet(<<"tenure", "Churn">>, 5)}
\* Sheets with an id column, and sheets whose headers are equal once
\* load_data has stripped them (line 81).
HeaderSheets ==
    {Sheet(c, r) :
        c \in {<<"id", "tenure", "plan", "score", "Churn">>,
               <<"plan", "tenure", "Churn", "Description">>,
               <<"tenure", "tenure", "Churn">>,
               <<"plan", "tenure", "plan", "Churn">>,
               <<"id", "id", "score", "plan", "Churn">>,
               <<"ROW_ID", "tenure", "Churn">>},
        r \in RowCounts}
DataFiles ==
    {CsvFile(sh) : sh \in Sheets \cup HeaderSheets}
    \cup {ExcelFile(<<sh>>) : sh \in ExcelSheets}
    \cup {ExcelFile(<<first, second>>) : first \in ExcelSheets, second \in ExcelSheets}

TrainInit ==
    /\ LifeStart /\ PipeOff /\ LedgerOff /\ ReqOff
    /\ data_file \in DataFiles
    /\ main = MainAt("load_data")
TrainNext == MainLoad \/ MainDetect \/ MainPrepare \/ MainTrain \/ MainSave
SpecTrain == TrainInit /\ [][TrainNext]_vars

(***************************************************************************)
(* The batch_predict endpoint (specification SpecBatch)                    *)
(***************************************************************************)
\* Largest number of customer ids of a batch request.
MaxBatch == 3

\* What matters of a customer id of the request: whether the customer is in
\* the database, and what predict_with_explanation does on the customer's
\* row: it raises, or returns with a risk level.
CustomerKinds ==
    [found : BOOLEAN, risk_level : {"raises", "high", "medium", "low"}]
BatchInputs == UNION {[1..n -> CustomerKinds] : n \in 1..MaxBatch}

\* One pass of the for loop, lines 168-218.
BatchRow ==
    /\ batch.pc = "loop"
    /\ batch.i <= Len(batch.customers)
    /\ LET customer == batch.customers[batch.i]
           next == [batch EXCEPT !.i = @ + 1]
           prediction == [customer_id |-> batch.i, risk_level |-> customer.risk_level]
       IN  batch' =
             IF ~customer.found THEN next
             ELSE IF customer.risk_level = "raises" THEN next
             ELSE IF customer.risk_level = "high"
             THEN [next EXCEPT !.high_risk = @ + 1,
                               !.predictions = Append(@, prediction)]
             ELSE IF customer.risk_level = "medium"
             THEN [next EXCEPT !.medium_risk = @ + 1,
                               !.predictions = Append(@, prediction)]
             ELSE [next EXCEPT !.low_risk = @ + 1,
                               !.predictions = Append(@, prediction)]
    /\ UNCHANGED <<factors, eventloop, pipeVars, lifeVars, ledgerVars, trainVars>>

\* Lines 220-230: commit, summary, response.  The summary's revenue_at_risk,
\* a sum of charges, is left out.
BatchReturn ==
    /\ batch.pc = "loop"
    /\ batch.i > Len(batch.customers)
    /\ batch' = [batch EXCEPT
                   !.pc = "done",
                   !.summary = [total_processed |-> Len(batch.predictions),
                                high_risk_count |-> batch.high_risk,
                                medium_risk_count |-> batch.medium_risk,
                                low_risk_count |-> batch.low_risk]]
    /\ UNCHANGED <<factors, eventloop, pipeVars, lifeVars, ledgerVars, trainVars>>

BatchInit ==
    /\ LifeStart /\ PipeOff /\ LedgerOff /\ TrainOff
    /\ factors = NoFactors
    /\ eventloop = NoUploads
    /\ \E customers \in BatchInputs :
          batch = [NoBatch EXCEPT !.pc = "loop", !.customers = customers, !.i = 1]
BatchNext == BatchRow \/ BatchReturn
SpecBatch == BatchInit /\ [][BatchNext]_vars

(***************************************************************************)
(* _get_top_factors (specification SpecFactors)                            *)
(***************************************************************************)
\* Largest number of features of an attribution map.
MaxFactors == 3
\* The default of the parameter top_n.
TopNDefault == 5

Abs(x) == IF x < 0 THEN -x ELSE x

\* dict.get(key, default) on a dict kept as a sequence of items.
DictGet(d, key, default) ==
    IF \E i \in DOMAIN d : d[i].k = key
    THEN d[CHOOSE i \in DOMAIN d : d[i].k = key].v
    ELSE default

\* sorted(..., reverse=True) on items that carry their key: descending, and
\* items of equal key in the order they had.
RECURSIVE SortedDesc(_)
SortedDesc(items) ==
    IF items = <<>> THEN <<>>
    ELSE LET rest == SortedDesc(Tail(items))
             before == Cardinality({i \in DOMAIN rest : rest[i].key > Head(items).key})
         IN  SubSeq(rest, 1, before) \o <<Head(items)>>
                \o SubSeq(rest, before + 1, Len(rest))

Factor(item, row, tie_up) ==
    [feature |-> item.feature,
     value |-> DictGet(row, item.feature, StrCell("N/A")),
     shap_value |-> Round4(item.shap_value, tie_up[item.shap_value]),
     impact |-> IF item.shap_value > 0 THEN "increases" ELSE "decreases"]

\* A _get_top_factors that sorts by the attribution itself, not by its
\* absolute value.
_get_top_factors_signed(shap_dict, row, top_n, tie_up) ==
    LET keyed == [i \in DOMAIN shap_dict |->
                     [key |-> shap_dict[i].shap_value, item |-> shap_dict[i]]]
        sorted_factors == SubSeq(SortedDesc(keyed), 1, Min(top_n, Len(keyed)))
    IN  [i \in DOMAIN sorted_factors |->
            Factor(sorted_factors[i].item, row, tie_up)]

\* _get_top_factors; shap_dict is the dict as the sequence of its items,
\* attributions in units of 10^-(4+ExtraDigits), row is input_data.
_get_top_factors(shap_dict, row, top_n, tie_up) ==
    LET keyed == [i \in DOMAIN shap_dict |->
                     [key |-> Abs(shap_dict[i].shap_value), item |-> shap_dict[i]]]
        sorted_factors == SubSeq(SortedDesc(keyed), 1, Min(top_n, Len(keyed)))
    IN  [i \in DOMAIN sorted_factors |->
            Factor(sorted_factors[i].item, row, tie_up)]

\* The attributions of a map, and the sides their halfway cases can fall to
\* in round(shap_value, 4).
ShapValuesOf(shap_dict) == {shap_dict[i].shap_value : i \in DOMAIN shap_dict}
TieSides(shap_dict) ==
    LET vals == ShapValuesOf(shap_dict)
    IN  { [v \in vals |-> v \in up] : up \in SUBSET {v \in vals : IsTie(v)} }

GetTopFactors ==
    /\ factors.pc = "call"
    /\ \E tie_up \in TieSides(factors.shap_dict) :
          factors' =
             [factors EXCEPT
                !.pc = "done",
                !.out = _get_top_factors(factors.shap_dict, factors.input_data,
                                         factors.top_n, tie_up)]
    /\ UNCHANGED <<batch, eventloop, pipeVars, lifeVars, ledgerVars, trainVars>>

\* The attribution maps, rows and values of top_n the function is called on.
FactorNames == {"c", "n", "m"}
ShapValues ==
    {-(ProbUnit + 2), -(ProbUnit \div 2), 0, ProbUnit \div 2, ProbUnit + 2}
ShapDicts ==
    UNION {{d \in [1..n -> [feature : FactorNames, shap_value : ShapValues]] :
              \A i, j \in 1..n : d[i].feature = d[j].feature => i = j} :
            n \in 0..MaxFactors}
FactorRows ==
    UNION {{d \in [1..n -> [k : FactorNames, v : {StrCell("zz"), IntCell(2)}]] :
              \A i, j \in 1..n : d[i].k = d[j].k => i = j} :
            n \in 0..2}
TopNs == {1, 2, TopNDefault}

FactorsInit ==
    /\ LifeStart /\ PipeOff /\ LedgerOff /\ TrainOff
    /\ batch = NoBatch
    /\ eventloop = NoUploads
    /\ \E shap_dict \in ShapDicts, row \in FactorRows, n \in TopNs :
          factors = [pc |-> "call", shap_dict |-> shap_dict, input_data |-> row,
                     top_n |-> n, out |-> <<>>]
SpecFactors == FactorsInit /\ [][GetTopFactors]_vars

(***************************************************************************)
(* Two upload-csv requests on the server's event loop (SpecLoop)           *)
(*                                                                         *)
(* upload_csv_for_predictions is an `async def` endpoint: the server runs  *)
(* it as a coroutine on its event loop.  Its only await is                 *)
(* `await file.read()` (line 275); from line 276 to the return or the      *)
(* raise it calls blocking functions only (open, json.load,                *)
(* subprocess.run, load_models, json.dump), so the loop runs nothing else  *)
(* until the handler has ended.  The model is one server process, which is *)
(* what the sources describe: they start no worker processes.              *)
(***************************************************************************)
MaxLoopUploads == 3
Handlers == {1, 2}

\* The positions of a handler between line 276 and the ledger write.
Critical == {"looked", "trained", "reread"}

\* The handler h may take its next step: the event loop is free, or h is the
\* coroutine that it is running.
MayStepInThread(h) == h \in Handlers
MayStep(h) == eventloop.running \in {0, h}

\* Lines 235-275: a request arrives, its coroutine starts and waits for the
\* content of the file.
LoopAccept(h) ==
    /\ eventloop.running = 0
    /\ eventloop.handlers[h].pc \in {"idle", "done", "failed"}
    /\ eventloop.started < MaxLoopUploads
    /\ \E file_hash \in Hashes :
          eventloop' = [eventloop EXCEPT
              !.started = @ + 1,
              !.overlapped = @ \/ \E g \in Handlers \ {h} :
                                    eventloop.handlers[g].pc = "reading",
              !.handlers[h] = [pc |-> "reading", n |-> eventloop.started + 1,
                               file_hash |-> file_hash, is_duplicate |-> FALSE,
                               history |-> NoFile]]
    /\ UNCHANGED <<history, attempt, log, batch, factors, pipeVars, lifeVars, trainVars>>

\* Lines 275-296: the coroutine is resumed with the content, hashes it and
\* looks the hash up in the ledger file.
LoopLookup(h) ==
    /\ MayStep(h)
    /\ eventloop.handlers[h].pc = "reading"
    /\ eventloop' = [eventloop EXCEPT
          !.running = h,
          !.handlers[h].pc = "looked",
          !.handlers[h].is_duplicate =
              CheckHistory(history, eventloop.handlers[h].file_hash)]
    /\ UNCHANGED <<history, attempt, log, batch, factors, pipeVars, lifeVars, trainVars>>

\* Lines 299-585: the file is saved, the model trained and loaded and the
\* rows predicted; any exception ends the handler with status 500
\* (lines 612-617).
LoopTrain(h) ==
    /\ MayStep(h)
    /\ eventloop.handlers[h].pc = "looked"
    /\ \E raised \in BOOLEAN :
          eventloop' = [eventloop EXCEPT
              !.running = IF raised THEN 0 ELSE h,
              !.handlers[h].pc = IF raised THEN "failed" ELSE "trained"]
    /\ UNCHANGED <<history, attempt, log, batch, factors, pipeVars, lifeVars, trainVars>>

\* Lines 586-594: the ledger file is read again.
LoopReread(h) ==
    /\ MayStep(h)
    /\ eventloop.handlers[h].pc = "trained"
    /\ eventloop' = [eventloop EXCEPT
          !.running = h,
          !.handlers[h].pc = "reread",
          !.handlers[h].history = history]
    /\ UNCHANGED <<history, attempt, log, batch, factors, pipeVars, lifeVars, trainVars>>

\* Lines 596-610: the record is appended to what was read, the file is
\* written and the response returned.
LoopWrite(h) ==
    /\ MayStep(h)
    /\ eventloop.handlers[h].pc = "reread"
    /\ LET record == UploadRecord(eventloop.handlers[h].n,
                                  eventloop.handlers[h].file_hash,
                                  eventloop.handlers[h].is_duplicate)
       IN  /\ history' = AppendToHistory(eventloop.handlers[h].history, record)
           /\ eventloop' = [eventloop EXCEPT
                 !.running = 0,
                 !.handlers[h].pc = "done",
                 !.completed = Append(@, record)]
    /\ UNCHANGED <<attempt, log, batch, factors, pipeVars, lifeVars, trainVars>>

LoopInit ==
    /\ LifeStart /\ PipeOff /\ TrainOff
    /\ batch = NoBatch
    /\ factors = NoFactors
    /\ attempt = NoAttempt
    /\ log = <<>>
    /\ history \in {NoFile, Recorded(1)}
    /\ eventloop = [NoUploads EXCEPT !.pc = "serving", !.earlier = history.uploads]
LoopNext ==
    \E h \in Handlers :
        LoopAccept(h) \/ LoopLookup(h) \/ LoopTrain(h) \/ LoopReread(h) \/ LoopWrite(h)
SpecLoop == LoopInit /\ [][LoopNext]_vars

(***************************************************************************)
(* Claims on the lifecycle (specification Spec)                            *)
(***************************************************************************)
\* C1: a /predictions request that was accepted while the predictor held one
\* complete bundle uses, whatever load_models does meanwhile, predictor
\* fields (label_encoders, categorical_cols, feature_cols, scaler,
\* numerical_cols, model) that all come from one bundle, i.e. from one
\* training run: never the model of one run with the feature_cols of another.
C1_RequestSeesOneBundle ==
    (kind = "predict" /\ entry \in {"bundle", "explained"}) => Cardinality(seen) <= 1

\* C2: when a retrain attempt of the upload handler has failed (the trainer
\* exited non-zero, or load_models returned False), the handler's load_models
\* has changed no predictor field and no model_loaded flag, so a predict that
\* succeeded before the attempt still succeeds.
C2_FailedAttemptLeavesPredictor ==
    pc["upload"] = "failed" => ~touched

\* The positions of predict_with_explanation after predict has returned.
ExplainSteps == {"e_ready", "e_encode", "e_select", "e_scale", "e_shap", "e_zip"}

\* C3: in a /predictions/explain request that was accepted while the
\* predictor held one complete bundle with its own explainer, once predict
\* has returned a probability computed from the objects of one bundle, the
\* feature vector handed to the explainer, the explainer and the labels of
\* the attribution come from that same bundle, whatever load_models does
\* meanwhile.
C3_ExplanationFromOneBundle ==
    [][ ( /\ kind = "explain"
          /\ entry = "explained"
          /\ pc["request"] \in ExplainSteps
          /\ Cardinality(seen) <= 1 )
        => Cardinality(seen') <= 1 ]_vars

\* C4: while the upload handler's training subprocess runs, a prediction
\* request that has arrived can be accepted and answered at once.
C4_TrainingDoesNotBlockRequests ==
    (pc["upload"] = "training" /\ pc["request"] = "arrived") => ENABLED RequestAccept

\* The model, scaler, encoders and metadata files are the complete output of
\* training run k.
BundleOnDisk(k) == \A f \in Artifacts \ {"shap"} : files[f] = Whole(k)

\* C5: when an upload has reached Swapped (load_models returned True and
\* initialize_shap has run) with the loaded model's run complete on disk, and
\* shap_ready is true, shap_explainer is the explainer of the loaded model,
\* never one saved by an earlier training run.
C5_ExplainerOfLoadedModel ==
    (pc["upload"] = "swapped" /\ pred.shap_ready /\ BundleOnDisk(pred.model))
        => pred.shap_explainer = pred.model

(***************************************************************************)
(* Claims about the feature pipeline and the prediction result             *)
(***************************************************************************)
RowKeys(d) == {d[i].k : i \in DOMAIN d}
ValueOf(d, key) == d[CHOOSE i \in DOMAIN d : d[i].k = key].v
Project(d, key) == SelectSeq(d, LAMBDA it : it.k = key)
FeaturesOnly(p, d) == SelectSeq(d, LAMBDA it : it.k \in SeqToSet(p.feature_cols))
Reverse(d) == [i \in DOMAIN d |-> d[Len(d) + 1 - i]]
Rotate(d) == IF Len(d) = 0 THEN d ELSE Tail(d) \o <<Head(d)>>
PosOf(p, f) == IndexOf(p.feature_cols, f)
Batched == step \in {"batched", "classify", "done"}

\* Two outcomes hold the same feature vectors: the same rows, NaN matching NaN
\* (no vector on either side when both raise).
SameArray(a, b) == a.ok = b.ok /\ (a.ok => a.rows = b.rows)

\* C6 (as claimed): for every loaded bundle and every row,
\* batch_prepare_features on the one-row table returns the feature vector
\* prepare_features returns for the row.
C6_BatchEqualsSingle ==
    (Batched /\ svc.model_loaded) => SameArray(features, X_array)

\* C7: every vector returned by prepare_features and every row returned by
\* batch_prepare_features has |feature_cols| entries; the entry at position i
\* is the one the pipeline derives from the row's value of feature_cols[i]
\* alone; and the outcome is the same for the row's columns reversed, rotated,
\* or stripped of the columns that are no feature.
AlignedWith(out, run(_)) ==
    out.ok =>
        /\ \A r \in DOMAIN out.rows : Len(out.rows[r]) = Len(svc.feature_cols)
        /\ \A i \in DOMAIN svc.feature_cols :
              (svc.feature_cols[i] \in RowKeys(input_data) /\ Len(out.rows) > 0) =>
                  LET alone == run(Project(input_data, svc.feature_cols[i]))
                  IN  alone.ok /\ Len(alone.rows) = 1
                      /\ out.rows[1][i] = alone.rows[1][i]
        /\ run(Reverse(input_data)) = out
        /\ run(Rotate(input_data)) = out
        /\ run(FeaturesOnly(svc, input_data)) = out

UnseenCategorical(f) ==
    /\ svc.model_loaded
    /\ f \in SeqToSet(svc.categorical_cols) /\ f \in SeqToSet(svc.feature_cols)
    /\ f \in DOMAIN svc.label_encoders
    /\ f \in RowKeys(input_data)
    /\ ~InClasses(svc.label_encoders[f], ValueOf(input_data, f))
    /\ \A g \in RowKeys(input_data) \cap SeqToSet(svc.numerical_cols) :
          ~FloatRaises(ValueOf(input_data, g))

\* C8: with a loaded bundle, a categorical value that is not in the stored
\* vocabulary does not make prepare_features or predict raise: the feature is
\* encoded as 0 and predict returns a result (probability in [0,1], a risk
\* level), answered with status 200.
C8_UnseenCategoricalDefaults ==
    \A f \in Keys :
        UnseenCategorical(f) =>
            /\ step # "start" =>
                  /\ features.ok /\ Len(features.rows) = 1
                  /\ features.rows[1][PosOf(svc, f)] = F(0)
            /\ step = "done" =>
                  /\ result.ok
                  /\ result.churn_probability \in 0..10000
                  /\ result.risk_level \in {"high", "medium", "low"}
                  /\ status_code = 200

\* C8 witness: predict answered a row whose categorical value is unseen.
C8_Witness ==
    /\ step = "done"
    /\ \E f \in Keys : UnseenCategorical(f) /\ ValueOf(input_data, f) = StrCell("zz")
    /\ result.ok

\* The row gives numerical feature f a value that is no number.
InvalidNumeric(f) ==
    /\ svc.model_loaded
    /\ f \in SeqToSet(svc.numerical_cols) /\ f \in SeqToSet(svc.feature_cols)
    /\ f \in RowKeys(input_data)
    /\ FloatRaises(ValueOf(input_data, f))

\* 0, as the pipeline passes it on for numerical feature f: scaled when a
\* scaler is loaded.
ZeroAt(f) ==
    IF svc.scaler.present
    THEN ScaleValue(svc.scaler, IndexOf(svc.numerical_cols, f), F(0))
    ELSE F(0)

\* C9 (as claimed): with a loaded bundle, prepare_features does not raise on a
\* numerical value that is no number; it returns a vector holding 0 (before
\* scaling) for that feature.
C9_InvalidNumericBecomesZero ==
    \A f \in Keys :
        (InvalidNumeric(f) /\ step # "start") =>
            /\ features.ok /\ Len(features.rows) = 1
            /\ features.rows[1][PosOf(svc, f)] = ZeroAt(f)

\* C10 (as claimed): in every result predict returns, risk_level agrees with
\* the returned churn_probability: high iff >= 0.7, medium iff in [0.3, 0.7),
\* low iff < 0.3.
C10_RiskMatchesReturnedProbability ==
    (step = "done" /\ result.ok) =>
        /\ result.risk_level = "high" <=> result.churn_probability >= 7000
        /\ result.risk_level = "medium" <=>
              (result.churn_probability >= 3000 /\ result.churn_probability < 7000)
        /\ result.risk_level = "low" <=> result.churn_probability < 3000

\* C11: for every classifier output in [0,1] the returned values, each
\* rounded to 4 decimals, satisfy
\* 0 <= confidence_interval.lower <= churn_probability
\*   <= confidence_interval.upper <= 1.
C11_IntervalAroundProbability ==
    (step = "done" /\ result.ok) =>
        /\ 0 <= result.confidence_interval.lower
        /\ result.confidence_interval.lower <= result.churn_probability
        /\ result.churn_probability <= result.confidence_interval.upper
        /\ result.confidence_interval.upper <= ProbOne \div ProbUnit

\* A result whose interval lies strictly around the probability and strictly
\* inside [0,1].
C11_Witness ==
    /\ step = "done"
    /\ result.ok
    /\ 0 < result.confidence_interval.lower
    /\ result.confidence_interval.lower < result.churn_probability
    /\ result.churn_probability < result.confidence_interval.upper
    /\ result.confidence_interval.upper < ProbOne \div ProbUnit

\* C12: while no bundle is loaded (model_loaded false, before any load or
\* after a failed one) prepare_features, batch_prepare_features, predict and
\* predict_with_explanation raise ModelNotLoadedError and both prediction
\* endpoints answer 503: never a result, never 500.
MNL == "ModelNotLoadedError"
C12_NotLoadedIsNotReady ==
    ~svc.model_loaded =>
        /\ step \notin {"off", "start"} => features = Raise(MNL)
        /\ step \in {"batched", "classify", "done", "explained"} =>
               X_array = Raise(MNL)
        /\ step \in {"classify", "done", "explained"} => pfeatures = Raise(MNL)
        /\ step \in {"done", "explained"} =>
               result = PredRaise(MNL) /\ status_code = 503
        /\ step = "explained" =>
               explanation = ExplRaise(MNL) /\ explain_code = 503

\* Both endpoints have answered on a predictor whose last load failed after
\* assigning fields.
C12_Witness ==
    /\ step = "explained"
    /\ svc \in FailedLoads
    /\ status_code = 503
    /\ explain_code = 503

(***************************************************************************)
(* Claims on the upload ledger (specification SpecUpload)                  *)
(***************************************************************************)
\* The ledger entries of upload attempt n.
EntriesOf(n) == {i \in DOMAIN history.uploads : history.uploads[i].n = n}

\* C13: an upload attempt that reached Training has, when the handler has
\* answered, exactly one ledger entry, also when the training subprocess
\* failed or the retrained bundle could not be loaded.
C13_AttemptRecorded ==
    attempt.pc \in {"done", "failed"} => Cardinality(EntriesOf(attempt.n)) = 1

\* C14: the ledger holds at most 50 entries, and every step leaves it as it
\* was or appends one entry and drops the oldest beyond 50: no entry is
\* changed or removed otherwise.
C14_LedgerAppendOnly ==
    [][ /\ Len(history'.uploads) <= KeepLast
        /\ \/ history'.uploads = history.uploads
           \/ /\ Len(history'.uploads) > 0
              /\ history'.uploads =
                    Last(Append(history.uploads,
                                history'.uploads[Len(history'.uploads)]), KeepLast)
      ]_vars

\* C15: a ledger entry has is_duplicate true exactly if an earlier upload
\* attempt had the same content hash.
C15_DuplicateIffEarlierSameHash ==
    \A i \in DOMAIN history.uploads :
        LET record == history.uploads[i]
        IN  record.is_duplicate <=>
               \E j \in 1..(record.n - 1) : log[j].file_hash = record.file_hash

\* C16: the step after Hashing starts the training run of the same upload,
\* whatever is_duplicate is.
C16_TrainingAlwaysRuns ==
    [][ attempt.pc = "hashed" =>
           attempt'.pc = "training" /\ attempt'.n = attempt.n ]_vars

\* Training runs for an upload whose hash was found in the ledger.
C16_Witness == attempt.pc = "training" /\ attempt.is_duplicate

(***************************************************************************)
(* Claims on load_models (specification SpecLoad)                          *)
(***************************************************************************)
\* The predictor p with no scaler (no label encoders) where the files loaded
\* hold none.
AsFilesSay(p) ==
    [p EXCEPT !.scaler = IF artifacts.scaler.exists THEN @ ELSE NoScaler,
              !.label_encoders = IF artifacts.encoders.exists THEN @ ELSE NoEncoders]

\* C17: after load_models succeeded on files with no scaler (no encoders)
\* file, prepare_features and batch_prepare_features return what a predictor
\* without scaler (without encoders) returns, whatever was loaded before.
C17_AbsentFilePassesRawValues ==
    /\ step \in {"prepared", "batched"} =>
          features = prepare_features(AsFilesSay(svc), input_data)
    /\ step = "batched" =>
          X_array = batch_prepare_features(AsFilesSay(svc), DataFrame1(input_data))

(***************************************************************************)
(* Claims on train_model.py (specification SpecTrain)                      *)
(***************************************************************************)
\* detect_schema has returned or raised.
Detected ==
    \/ main.step \in {"prepare_features", "train_model", "save_and_zip", "exit"}
    \/ main.step = "raised" /\ main.y = <<>>
Aliases(columns) == {a \in SeqToSet(target_candidates) : a \in SeqToSet(columns)}
Priority(a) == CHOOSE k \in DOMAIN target_candidates : target_candidates[k] = a
LastColumn(df) == df.columns[Len(df.columns)]

\* C18: the target is the alias present that comes first in the alias list;
\* with no alias present it is the last column if that has at most 5
\* distinct values; otherwise detect_schema raises and main has no target.
C18_TargetByPriority ==
    Detected =>
        LET present == Aliases(main.df.columns)
        IN  IF present # {}
            THEN /\ main.target_col \in present
                 /\ \A a \in present : Priority(main.target_col) <= Priority(a)
            ELSE IF nunique(main.df, LastColumn(main.df)) <= MaxTargetValues
            THEN main.target_col = LastColumn(main.df)
            ELSE main.step = "raised" /\ main.target_col = ""

\* Two aliases are present, the one of lower priority first among the
\* columns, and the target is the one of higher priority.
C18_Witness ==
    /\ main.step = "prepare_features"
    /\ main.target_col = "Churn"
    /\ main.df.columns[1] = "Status"

\* A documentation sheet: every column is one of the metadata keywords.  The
\* data is documentation only when every sheet of the file is one.
IsDocumentation(sheet) == SeqToSet(sheet.columns) \subseteq metadata_keywords
DocumentationOnly(file) ==
    \A k \in DOMAIN file.sheets : IsDocumentation(file.sheets[k])

\* C19: on a file that holds documentation sheets only, load_data fails: main
\* never gets a frame, never goes past load_data except by raising, and
\* writes no bundle.
C19_DocumentationRejected ==
    DocumentationOnly(data_file) =>
        /\ main.df = NoFrame
        /\ main.step \in {"load_data", "raised"}
        /\ ~main.written

\* C20: with at least 20 rows and at least two distinct values in the target
\* column, the label vector y has two classes and main does not raise; once
\* main has ended, the bundle is written.
C20_TwoClassesTrain ==
    ( /\ main.target_col # ""
      /\ main.df.rows >= 20
      /\ nunique(main.df, main.target_col) >= 2 ) =>
        /\ main.y # <<>> => Cardinality(SeqToSet(main.y)) = 2
        /\ main.step # "raised"
        /\ main.step = "exit" => main.written

\* C21: a run whose data has fewer than 20 rows, or whose target column has
\* fewer than two distinct values, never reaches save_and_zip and writes
\* nothing.
C21_DegenerateDataFails ==
    ( /\ main.target_col # ""
      /\ \/ main.df.rows < 20
         \/ nunique(main.df, main.target_col) < 2 ) =>
        /\ main.step \notin {"save_and_zip", "exit"}
        /\ ~main.written

\* C22: every upload request that was started is answered: the handler
\* comes to its end also when the training subprocess never exits.
C22_UploadAnswered == (attempt.pc \in {"hashed", "training"}) ~> (attempt.pc \in Ended)

\* C23: within one upload the handler starts training only after hashing,
\* calls load_models only after its training subprocess exited with status 0,
\* predicts only after load_models, and after a non-zero exit never calls
\* load_models.
C23_LoadOnlyAfterTrainingSucceeded ==
    [][ /\ attempt'.pc = "hashed" => attempt.pc \in Ended
        /\ attempt'.pc = "training" =>
              attempt.pc = "hashed" /\ attempt'.n = attempt.n
        /\ attempt'.pc = "load" =>
              /\ attempt.pc = "training" /\ attempt'.n = attempt.n
              /\ attempt'.returncode = 0
        /\ attempt'.pc = "predict" =>
              /\ attempt.pc = "load" /\ attempt'.n = attempt.n
              /\ attempt.returncode = 0
        /\ (attempt.returncode > 0 /\ attempt'.n = attempt.n) =>
              attempt'.pc = "failed" ]_vars

\* The predictor has been reloaded after the training of this upload exited
\* with status 0.
C23_Witness == attempt.pc = "predict" /\ attempt.returncode = 0 /\ attempt.n > 1

(***************************************************************************)
(* Claims on batch_predict (specification SpecBatch)                       *)
(***************************************************************************)
\* Processing customer i of the batch raised.
RowFailed(i) ==
    batch.customers[i].found /\ batch.customers[i].risk_level = "raises"
RowServed(i) == batch.customers[i].found /\ ~RowFailed(i)

\* C24: when the batch has been answered, every customer whose own
\* processing did not fail has a prediction in the response, whatever
\* happened to the other customers, and some entry of the summary is the
\* number of customers whose processing failed.
C24_RowFailureIsLocal ==
    batch.pc = "done" =>
        /\ \A i \in DOMAIN batch.customers :
              RowServed(i) <=>
                 \E k \in DOMAIN batch.predictions :
                    batch.predictions[k].customer_id = i
        /\ \E key \in DOMAIN batch.summary :
              batch.summary[key] =
                 Cardinality({i \in DOMAIN batch.customers : RowFailed(i)})

(***************************************************************************)
(* Claims on _get_top_factors (specification SpecFactors)                  *)
(***************************************************************************)
\* The attribution of a feature in the map the function was called on.
AttributionOf(feature) ==
    factors.shap_dict[CHOOSE i \in DOMAIN factors.shap_dict :
                         factors.shap_dict[i].feature = feature].shap_value
Returned == {factors.out[i].feature : i \in DOMAIN factors.out}
InMap == {factors.shap_dict[i].feature : i \in DOMAIN factors.shap_dict}

\* C25: the result has min(top_n, n) entries for distinct features of the
\* map, in non-increasing order of absolute attribution; no feature left out
\* has a larger absolute attribution than one returned; an entry is tagged
\* increases for a positive and decreases for a negative attribution, and
\* carries the value the input row has for its feature.
C25_TopFactors ==
    factors.pc = "done" =>
        /\ Len(factors.out) = Min(factors.top_n, Len(factors.shap_dict))
        /\ Returned \subseteq InMap
        /\ Cardinality(Returned) = Len(factors.out)
        /\ \A i, j \in DOMAIN factors.out :
              i < j => Abs(AttributionOf(factors.out[i].feature))
                          >= Abs(AttributionOf(factors.out[j].feature))
        /\ \A omitted \in InMap \ Returned : \A kept \in Returned :
              Abs(AttributionOf(omitted)) <= Abs(AttributionOf(kept))
        /\ \A i \in DOMAIN factors.out :
              LET entry_i == factors.out[i]
              IN  /\ AttributionOf(entry_i.feature) > 0 => entry_i.impact = "increases"
                  /\ AttributionOf(entry_i.feature) < 0 => entry_i.impact = "decreases"
                  /\ \A k \in DOMAIN factors.input_data :
                        factors.input_data[k].k = entry_i.feature =>
                           entry_i.value = factors.input_data[k].v

\* Of three features two are returned: first the one with the negative
\* attribution of largest absolute value, which stood last in the map, then
\* a positive one; the feature left out has the smallest absolute attribution.
C25_Witness ==
    /\ factors.pc = "done"
    /\ Len(factors.shap_dict) = 3
    /\ Len(factors.out) = 2
    /\ factors.out[1].feature = factors.shap_dict[3].feature
    /\ factors.out[1].impact = "decreases"
    /\ factors.out[2].impact = "increases"
    /\ factors.out[2].value = IntCell(2)
    /\ \A omitted \in InMap \ Returned :
          Abs(AttributionOf(omitted)) < Abs(AttributionOf(factors.out[2].feature))

(***************************************************************************)
(* Claims on the artifact files and the predictor's flags (Spec)           *)
(***************************************************************************)
\* C26: at every moment the complete artifact files of ml/models were all
\* written by one and the same training run.
C26_FilesOfOneRun ==
    \A f, g \in Artifacts :
       (files[f].st = "whole" /\ files[g].st = "whole") =>
          files[f].run = files[g].run

\* C28: shap_ready implies model_loaded, and model_loaded implies that model
\* and metadata are set.
C28_FlagsConsistent ==
    /\ pred.shap_ready => pred.model_loaded
    /\ pred.model_loaded => (pred.model # 0 /\ pred.metadata # 0)

(***************************************************************************)
(* Claims on the upload handler and the trainer's health check             *)
(***************************************************************************)
\* C27: an upload whose training run failed its own health check does not
\* put that run's artifacts into the predictor: the handler does not get
\* past load_models with them, to predict and to record the upload.
C27_UnhealthyRunNotLive ==
    (attempt.returncode = 0 /\ ~attempt.healthy) =>
        attempt.pc \notin {"predict", "record", "done"}


(***************************************************************************)
(* Claims on concurrent uploads (SpecLoop)                                 *)
(***************************************************************************)
\* C29: at most one upload handler is between its ledger lookup and its
\* ledger write, and the ledger is the entries it held at the start followed
\* by one entry for every upload that has returned successfully, in the
\* order of their returns.
C29_UploadsDoNotInterleave ==
    /\ Cardinality({h \in Handlers : eventloop.handlers[h].pc \in Critical}) <= 1
    /\ history.uploads = eventloop.earlier \o eventloop.completed
    /\ Len(history.uploads) = Len(eventloop.earlier) + Len(eventloop.completed)
\* Two requests were waiting for their content at the same time, and both
\* have returned successfully.
C29_Witness ==
    /\ eventloop.overlapped
    /\ \A h \in Handlers : eventloop.handlers[h].pc = "done"
    /\ Len(eventloop.completed) >= 2


(***************************************************************************)
(* Claims on the column order of a bundle (SpecTrain)                      *)
(***************************************************************************)
\* The predictor after load_models on the files that main has written.
WrittenBundle ==
    load_models_from(Unloaded,
        [model |-> TRUE,
         metadata |-> main.metadata,
         encoders |-> [exists |-> TRUE,
                       content |-> [c \in SeqToSet(main.cat_cols) |-> Classes(c)]],
         scaler |-> [exists |-> TRUE, content |-> FittedScaler(main.scaler.names)]])
\* The columns of the dataset that are in a list, in the dataset's order.
InDatasetOrder(cols) ==
    SelectSeq(AssignColumns(main.df.columns), LAMBDA c : c \in SeqToSet(cols))
\* The names at the positions prepare_features hands to the scaler.
HandedToScaler(p) == [k \in DOMAIN NumIndices(p) |-> p.feature_cols[NumIndices(p)[k]]]

\* C30: in a bundle that main has written, feature_cols is categorical_cols
\* followed by numerical_cols, each in the order of the dataset's columns,
\* without duplicates and without the target and the id column; the
\* numerical features in feature_cols order are the columns the scaler was
\* fitted on, in that order, and prepare_features and
\* batch_prepare_features hand the scaler exactly these.
C30_FeatureOrder ==
    main.written =>
        LET m == main.metadata
            p == WrittenBundle
        IN  /\ m.feature_cols = m.categorical_cols \o m.numerical_cols
            /\ m.categorical_cols = InDatasetOrder(m.categorical_cols)
            /\ m.numerical_cols = InDatasetOrder(m.numerical_cols)
            /\ Cardinality(SeqToSet(m.feature_cols)) = Len(m.feature_cols)
            /\ SeqToSet(m.feature_cols) =
                  SeqToSet(main.df.columns) \ {m.target_col, m.customer_id_col}
            /\ SelectSeq(m.feature_cols, LAMBDA c : c \in SeqToSet(m.numerical_cols))
                  = main.scaler.names
            /\ HandedToScaler(p) = p.scaler.names
            /\ ValidNumCols(p) = p.scaler.names
\* A bundle of a dataset with an id column, in which a numerical column comes
\* before a categorical one and two columns are numerical.
C30_Witness ==
    /\ main.written
    /\ main.metadata.customer_id_col = "id"
    /\ Len(main.metadata.numerical_cols) >= 2
    /\ Len(main.metadata.categorical_cols) >= 1
    /\ \E i, j \in DOMAIN main.df.columns :
          /\ i < j
          /\ main.df.columns[i] \in SeqToSet(main.metadata.numerical_cols)
          /\ main.df.columns[j] \in SeqToSet(main.metadata.categorical_cols)

=============================================================================
